---- MODULE Spec2Model ----
(***************************************************************************)
(* Model of ado-test-gen: test-case generation from acceptance criteria    *)
(* and idempotent publishing to the work-item sink.                        *)
(*                                                                         *)
(* Text is a sequence of tokens.  A token is a one-character string where  *)
(* the code looks inside the text (titles, descriptors, internal IDs) and  *)
(* a whole phrase where the code only compares it (step texts).            *)
(***************************************************************************)
EXTENDS Integers, Sequences, FiniteSets, TLC

VARIABLES
    \* ---- work-item sink and suite (external collaborators' state)
    items,          \* sequence of work items; a work item's id is its index
    suite,          \* set of work-item ids that are members of the target suite
    story,          \* the user story as the source returns it
    \* ---- one pipeline run (generate_and_publish / run_hybrid_pipeline)
    pc,             \* "idle", "find", "publish", "suite", "done"
    mode,           \* "rules" (TestCaseOrchestrator) or "hybrid" (HybridPipeline)
    cands,          \* the run's candidates, in publish order
    existing,       \* internal_id -> existing work item, as looked up by the run
    idx,            \* index of the next candidate to publish
    created_ids, updated_ids, skipped_ids,
    handled,        \* work-item id each processed candidate ended on (0: errored)
    errors,         \* the run's error list
    runs,           \* number of runs started so far
    \* ---- history of the runs, read by the properties only
    startItems,     \* the sink's items when the current run started
    lookupFailed,   \* the current run's lookup of existing items failed
    everLookupFailed,
    rerun,          \* the current run repeats a run that completed without error
    cleanStory,     \* story of the last run if it completed without error
    edits,          \* number of edits of the story so far
    faults,         \* number of failed sink calls so far
    \* ---- one call of the synthesizer, of the gate, or of the close-step operations
    area,           \* what the behaviour exercises: "publish", "synth", "gate", "steps",
                    \* "title", "advisor", "dedup", "hybrid", "split", "parse",
                    \* "classify", "xml"
    sy_in,          \* generate_all_test_cases: story, template catalog, cap, criteria
    sy_out,         \* its outcome: [state, cases]
    gt_in,          \* validate_and_canonicalize: draft and arguments
    gt_out,         \* its outcome: [state, tc]
    st_steps,       \* a step list the close-step operations are applied to
    st_hist,        \* the applications so far: [op, before, after]
    \* ---- one call of the title builder or of the descriptor checks
    tb_in,          \* build: internal id, four segments, short descriptor
    tb_out,         \* its outcome: [state, raised, title]
    tb_check,       \* the descriptor checks' outcome: [state, sanitized, gate, builder]
    \* ---- one call of the advisor, of the deduper, or one hybrid generation
    ad_in,          \* plan_scenarios / write_steps: configuration and endpoint behaviour
    ad_out,         \* its outcome: [state, result, calls]
    dd_in,          \* is_duplicate: the backends and what they compute for the pair
    dd_out,         \* its outcome: [state, duplicate]
    hy_in,          \* stages A to D of run_hybrid_pipeline: story, advisor, deduper
    hy_out,         \* their outcome: [state, final_tests, errors, ...]
    \* ---- one call of the criteria splitter
    sp_in,          \* ACSplitter.split: the text
    sp_out,         \* its outcome: [state, items]
    \* ---- one call of the criteria parser
    pa_in,          \* _parse_ac_items: the text
    pa_out,         \* its outcome: [state, normalized, result]
    cl_in,          \* classify: the criterion text
    cl_out,         \* its outcome: [state, scores, result]
    \* ---- one encoding of a step list, read back
    xm_in,          \* generate: the step list
    xm_out          \* its outcome: [state, raised, xml, document]

pubVars == <<items, suite, story, pc, mode, cands, existing, idx, created_ids,
             updated_ids, skipped_ids, handled, errors, runs, startItems,
             lookupFailed, everLookupFailed, rerun, cleanStory, edits, faults>>

genVars == <<sy_in, sy_out, gt_in, gt_out, st_steps, st_hist>>

titleVars == <<tb_in, tb_out, tb_check>>

hybVars == <<ad_in, ad_out, dd_in, dd_out, hy_in, hy_out>>

parseVars == <<sp_in, sp_out, pa_in, pa_out, cl_in, cl_out>>

xmlVars == <<xm_in, xm_out>>

vars == <<pubVars, area, genVars, titleVars, hybVars, parseVars, xmlVars>>

----------------------------------------------------------------------------
(* Bounds *)
MaxRuns == 2
MaxCands == 2
MaxEdits == 1
MaxFaults == 1
MaxACs == 2
MaxUniformACs == 8
MaxTestsPerAc == 3
MaxDraftSteps == 2
MaxSteps == 2
MaxApply == 2
MaxPoolWords == 2
MaxFillers == 10
MaxWordLength == 12
StoryId == 27
Versions == {"v1", "v2"}

----------------------------------------------------------------------------
(* Text helpers (Python str methods used by the code) *)

Whitespace == {" ", "\t", "\n"}

RECURSIVE LStrip(_)
LStrip(s) == IF s # <<>> /\ Head(s) \in Whitespace THEN LStrip(Tail(s)) ELSE s

RECURSIVE RStrip(_)
RStrip(s) ==
    IF s # <<>> /\ s[Len(s)] \in Whitespace THEN RStrip(SubSeq(s, 1, Len(s) - 1)) ELSE s

Strip(s) == LStrip(RStrip(s))

\* position of the first occurrence of token c in s, 0 if there is none
RECURSIVE IndexOf(_, _, _)
IndexOf(s, c, i) ==
    IF i > Len(s) THEN 0 ELSE IF s[i] = c THEN i ELSE IndexOf(s, c, i + 1)

\* s.split(c)[0]
SplitHead(s, c) ==
    IF IndexOf(s, c, 1) = 0 THEN s ELSE SubSeq(s, 1, IndexOf(s, c, 1) - 1)

StartsWith(s, p) == Len(s) >= Len(p) /\ SubSeq(s, 1, Len(p)) = p

DigitChar == <<"0", "1", "2", "3", "4", "5", "6", "7", "8", "9">>

\* str(n) for n >= 0
RECURSIVE Digits(_)
Digits(n) ==
    IF n < 10 THEN <<DigitChar[n + 1]>>
    ELSE Digits(n \div 10) \o <<DigitChar[(n % 10) + 1]>>

\* f"{n:03d}"
RECURSIVE ZeroPad(_, _)
ZeroPad(s, w) == IF Len(s) >= w THEN s ELSE ZeroPad(<<"0">> \o s, w)

----------------------------------------------------------------------------
(* NamingEngine: internal IDs *)

generate_internal_id(story_id, index) ==
    IF index = 0
    THEN Digits(story_id) \o <<"-", "A", "C", "1">>
    ELSE Digits(story_id) \o <<"-">> \o ZeroPad(Digits((index - 1) * 5 + 5), 3)

----------------------------------------------------------------------------
(* More text helpers *)

UpperToLower ==
    ("A" :> "a") @@ ("B" :> "b") @@ ("C" :> "c") @@ ("D" :> "d") @@ ("E" :> "e") @@ ("F" :> "f") @@
    ("G" :> "g") @@ ("H" :> "h") @@ ("I" :> "i") @@ ("J" :> "j") @@ ("K" :> "k") @@ ("L" :> "l") @@
    ("M" :> "m") @@ ("N" :> "n") @@ ("O" :> "o") @@ ("P" :> "p") @@ ("Q" :> "q") @@ ("R" :> "r") @@
    ("S" :> "s") @@ ("T" :> "t") @@ ("U" :> "u") @@ ("V" :> "v") @@ ("W" :> "w") @@ ("X" :> "x") @@
    ("Y" :> "y") @@ ("Z" :> "z")

LowerCaseLetters ==
    {"a", "b", "c", "d", "e", "f", "g", "h", "i", "j", "k", "l", "m",
     "n", "o", "p", "q", "r", "s", "t", "u", "v", "w", "x", "y", "z"}

\* str.lower()
Lower(c) == IF c \in DOMAIN UpperToLower THEN UpperToLower[c] ELSE c
LowerText(s) == [i \in 1..Len(s) |-> Lower(s[i])]

\* the characters the regular expression class \w matches (str patterns match
\* Unicode word characters: the accented letter of the punctuation set is one)
IsWordChar(c) ==
    \/ c \in LowerCaseLetters
    \/ c \in DOMAIN UpperToLower
    \/ c \in {DigitChar[i] : i \in 1..10}
    \/ c \in {"_", "a-circumflex"}

\* sub in s
Contains(s, sub) ==
    \E i \in 1..(Len(s) - Len(sub) + 1) : SubSeq(s, i, i + Len(sub) - 1) = sub

\* str.split(): the maximal runs of non-whitespace characters
RECURSIVE SplitWords(_)
SplitWords(s) ==
    LET t == LStrip(s)
        RECURSIVE WordEnd(_)
        WordEnd(i) == IF i > Len(t) \/ t[i] \in Whitespace THEN i - 1 ELSE WordEnd(i + 1)
    IN IF t = <<>> THEN <<>>
       ELSE <<SubSeq(t, 1, WordEnd(1))>> \o SplitWords(SubSeq(t, WordEnd(1) + 1, Len(t)))

\* sep.join(parts)
RECURSIVE Join(_, _)
Join(parts, sep) ==
    IF parts = <<>> THEN <<>>
    ELSE IF Len(parts) = 1 THEN parts[1]
    ELSE parts[1] \o sep \o Join(Tail(parts), sep)

\* re.sub(r'\s+', ' ', s): of every run of whitespace the first character is
\* kept, as a space
CollapseWhitespace(s) ==
    LET tagged == [i \in 1..Len(s) |-> <<s[i], i > 1 /\ s[i - 1] \in Whitespace>>]
        RunStart(p) == p[1] \notin Whitespace \/ ~p[2]
        kept == SelectSeq(tagged, RunStart)
    IN [i \in 1..Len(kept) |-> IF kept[i][1] \in Whitespace THEN " " ELSE kept[i][1]]

\* s.find(sub, i - 1) + 1: the first index >= i at which sub occurs in s, or 0
FindFrom(s, sub, i) ==
    LET at == {k \in i..(Len(s) - Len(sub) + 1) : SubSeq(s, k, k + Len(sub) - 1) = sub}
    IN IF at = {} THEN 0 ELSE CHOOSE k \in at : \A other \in at : k <= other

\* s.split(sep): the parts between the occurrences of sep, taken left to right
RECURSIVE SplitOn(_, _)
SplitOn(s, sep) ==
    LET at == FindFrom(s, sep, 1)
    IN IF at = 0 THEN <<s>>
       ELSE <<SubSeq(s, 1, at - 1)>> \o SplitOn(SubSeq(s, at + Len(sep), Len(s)), sep)

----------------------------------------------------------------------------
(* NamingEngine: TitleBuilder *)

FORBIDDEN_WORDS ==
    {<<"v", "e", "r", "i", "f", "y">>,
     <<"c", "h", "e", "c", "k">>,
     <<"t", "e", "s", "t">>,
     <<"v", "a", "l", "i", "d", "a", "t", "e">>,
     <<"e", "n", "s", "u", "r", "e">>,
     <<"c", "o", "n", "f", "i", "r", "m">>,
     <<"c", "l", "i", "c", "k">>,
     <<"s", "e", "l", "e", "c", "t">>,
     <<"c", "h", "o", "o", "s", "e">>,
     <<"p", "r", "e", "s", "s">>,
     <<"t", "y", "p", "e">>,
     <<"e", "n", "t", "e", "r">>,
     <<"i", "n", "p", "u", "t">>,
     <<"w", "h", "e", "n">>,
     <<"t", "h", "e", "n">>,
     <<"i", "f">>,
     <<"s", "h", "o", "u", "l", "d">>,
     <<"m", "u", "s", "t">>,
     <<"w", "i", "l", "l">>,
     <<"c", "a", "n">>,
     <<"m", "a", "y">>,
     <<"d", "o">>,
     <<"d", "o", "e", "s">>,
     <<"d", "i", "d">>,
     <<"d", "o", "n", "e">>,
     <<"m", "a", "k", "e">>,
     <<"m", "a", "k", "e", "s">>,
     <<"m", "a", "d", "e">>}

\* the fourth entry is the three-character sequence the source file holds
FORBIDDEN_PUNCTUATION ==
    {<<".">>, <<":">>, <<";">>, <<"a-circumflex", "euro-sign", "broken-bar">>,
     <<"!">>, <<"?">>, <<",">>}

MAX_WORDS == 8
MAX_TITLE_LENGTH == 250

\* re.search(r'\b' + word + r'\b', text): \b is a position with a word
\* character on exactly one side
WordBoundary(text, p) ==
    LET before == p > 1 /\ IsWordChar(text[p - 1])
        after == p <= Len(text) /\ IsWordChar(text[p])
    IN before # after

SearchWholeWord_Substring(text, word) == Contains(text, word)

SearchWholeWord(text, word) ==
    \E i \in 1..(Len(text) - Len(word) + 1) :
        /\ SubSeq(text, i, i + Len(word) - 1) = word
        /\ WordBoundary(text, i)
        /\ WordBoundary(text, i + Len(word))

\* TitleBuilder._validate_short_descriptor: "ok", or the ValueError raised
_validate_short_descriptor(descriptor) ==
    IF descriptor = <<>> \/ Strip(descriptor) = <<>> THEN "empty"
    ELSE IF Len(SplitWords(descriptor)) > MAX_WORDS THEN "too-many-words"
    ELSE IF \E w \in FORBIDDEN_WORDS :
                /\ Contains(LowerText(descriptor), w)
                /\ SearchWholeWord(LowerText(descriptor), w)
         THEN "forbidden-word"
    ELSE IF \E p \in FORBIDDEN_PUNCTUATION : Contains(descriptor, p)
         THEN "forbidden-punctuation"
    ELSE "ok"

\* TitleBuilder._clean_component
_clean_component(component) ==
    IF component = <<>> THEN <<>>
    ELSE LET replaced == [i \in 1..Len(Strip(component)) |->
                            IF Strip(component)[i] \in {"/", "\\"} THEN "-"
                            ELSE Strip(component)[i]]
         IN Strip(CollapseWhitespace(replaced))

\* the words of the descriptor that fit in max_desc_length - 3 characters,
\* each counted with one separator (the loop of TitleBuilder.build)
RECURSIVE TruncatedWords(_, _, _)
TruncatedWords(words, current_length, max_desc_length) ==
    IF words = <<>> THEN <<>>
    ELSE IF current_length + Len(Head(words)) + 1 <= max_desc_length - 3
    THEN <<Head(words)>> \o
         TruncatedWords(Tail(words), current_length + Len(Head(words)) + 1, max_desc_length)
    ELSE <<>>

TestCaseText == <<"T", "e", "s", "t", " ", "C", "a", "s", "e">>
TitleSep == <<" ", "/", " ">>

\* TitleBuilder.build: [raised |-> the ValueError or "ok", title |-> the title]
build(internal_id, feature, module, category, subcategory, short_descriptor) ==
    LET verdict == _validate_short_descriptor(short_descriptor)
        cleaned == <<_clean_component(feature), _clean_component(module),
                     _clean_component(category), _clean_component(subcategory),
                     _clean_component(short_descriptor)>>
        title == internal_id \o <<":", " ">> \o Join(cleaned, TitleSep)
        prefix == internal_id \o <<":", " ">> \o Join(SubSeq(cleaned, 1, 4), TitleSep)
                    \o TitleSep
        max_desc_length == MAX_TITLE_LENGTH - Len(prefix)
        truncated_words == TruncatedWords(SplitWords(short_descriptor), 0, max_desc_length)
        truncated_desc == IF truncated_words # <<>>
                          THEN Join(truncated_words, <<" ">>) \o <<".", ".", ".">>
                          ELSE TestCaseText
    IN IF verdict # "ok" THEN [raised |-> verdict, title |-> <<>>]
       ELSE IF Len(title) <= MAX_TITLE_LENGTH THEN [raised |-> "ok", title |-> title]
       ELSE IF max_desc_length > 0 THEN [raised |-> "ok", title |-> prefix \o truncated_desc]
       ELSE [raised |-> "ok", title |-> internal_id \o <<":", " ">> \o TestCaseText]

----------------------------------------------------------------------------
(* ValidationGate: the descriptor checks of TestCaseValidator *)

\* str.replace(sub, ""): every occurrence, left to right
RECURSIVE RemoveAll(_, _)
RemoveAll(s, sub) ==
    IF Len(s) < Len(sub) THEN s
    ELSE IF SubSeq(s, 1, Len(sub)) = sub THEN RemoveAll(SubSeq(s, Len(sub) + 1, Len(s)), sub)
    ELSE <<Head(s)>> \o RemoveAll(Tail(s), sub)

\* The loop of sanitize_short_descriptor visits FORBIDDEN_PUNCTUATION, a set
\* of strings, in an order that differs from one process to the next.  The
\* removals of the one-character entries commute; the outcome depends on
\* which of them come before the three-character entry.
SinglePunctuation == {p[1] : p \in {q \in FORBIDDEN_PUNCTUATION : Len(q) = 1}}
LongPunctuation == CHOOSE p \in FORBIDDEN_PUNCTUATION : Len(p) > 1

\* the sets of one-character entries that may come first: removing a
\* character the text does not hold changes nothing, and without the first
\* character of the long entry every order gives the same result
PunctuationOrders(text) ==
    IF \E i \in 1..Len(text) : text[i] = LongPunctuation[1]
    THEN SUBSET (SinglePunctuation \cap {text[i] : i \in 1..Len(text)})
    ELSE {{}}

\* str.replace(c, "") for every character c of chars
RemoveChars(s, chars) ==
    LET Kept(c) == c \notin chars
    IN SelectSeq(s, Kept)

\* TestCaseValidator.sanitize_short_descriptor, the one-character entries of
\* first being visited before the long entry
sanitize_short_descriptor(text, first) ==
    LET removed == RemoveChars(RemoveAll(RemoveChars(text, first), LongPunctuation),
                               SinglePunctuation \ first)
    IN Strip(CollapseWhitespace(removed))

\* TestCaseValidator.validate_short_descriptor
validate_short_descriptor(text) ==
    /\ Len(SplitWords(text)) <= 8
    /\ ~\E word \in FORBIDDEN_WORDS : Contains(LowerText(text), word)
    /\ ~\E punct \in FORBIDDEN_PUNCTUATION : Contains(text, punct)

\* TestCaseValidator.validate_title_format
validate_title_format(title, internal_id) ==
    /\ StartsWith(title, internal_id \o <<":">>)
    /\ Len(SplitOn(title, TitleSep)) = 5
    /\ validate_short_descriptor(SplitOn(title, TitleSep)[5])

----------------------------------------------------------------------------
(* Test steps: the close step of the rule path and the exit step of the gate *)

TestStep(action, expected_result, step_number) ==
    [action |-> action, expected_result |-> expected_result, step_number |-> step_number]

\* the close step StepsXMLGenerator.add_close_application_step builds
CloseAction == <<"Close/Exit the application.">>
CloseExpected ==
    <<"Application closes successfully without crash or freeze; no error dialogs are shown during exit.">>

\* TestCaseValidator.EXIT_ACTION, EXIT_EXPECTED
EXIT_ACTION == <<"Close/Exit the QuickDraw application.">>
EXIT_EXPECTED ==
    <<"Application closes successfully without crash or freeze; no error dialogs are shown during exit.">>

\* the close step is appended and the steps before it keep the numbers they
\* came with
add_close_application_step_KeepNumbers(steps) ==
    steps \o <<TestStep(CloseAction, CloseExpected, Len(steps) + 1)>>

\* StepsXMLGenerator.add_close_application_step
add_close_application_step(steps) ==
    [i \in 1..Len(steps) |->
        TestStep(steps[i].action, steps[i].expected_result, i)]
    \o <<TestStep(CloseAction, CloseExpected, Len(steps) + 1)>>

\* TestCaseValidator.append_exit_step
append_exit_step(steps) ==
    IF \E i \in 1..Len(steps) : steps[i].action = EXIT_ACTION
    THEN steps
    ELSE steps \o <<TestStep(EXIT_ACTION, EXIT_EXPECTED, Len(steps) + 1)>>

----------------------------------------------------------------------------
(* Synthesizer: TemplateEngine and TestCaseFactory *)

\* ACCategory: the category names, and their values as text
ACCategory ==
    {"AVAILABILITY_ENTRY_POINTS", "LOGGING_TRACKING", "ORDERING", "LIMIT_RETENTION",
     "RESTRICTIONS_SCOPE", "DYNAMIC_REFRESH", "RESET_CONDITIONS", "SCROLLING",
     "ACCESSIBILITY", "OTHER_GENERAL"}

CategoryValue(category) ==
    CASE category = "AVAILABILITY_ENTRY_POINTS" -> <<"A", "v", "a", "i", "l", "a", "b", "i", "l", "i", "t", "y", "/", "E", "n", "t", "r", "y", " ", "P", "o", "i", "n", "t", "s">>
      [] category = "LOGGING_TRACKING" -> <<"L", "o", "g", "g", "i", "n", "g", "/", "T", "r", "a", "c", "k", "i", "n", "g">>
      [] category = "ORDERING" -> <<"O", "r", "d", "e", "r", "i", "n", "g">>
      [] category = "LIMIT_RETENTION" -> <<"L", "i", "m", "i", "t", "/", "R", "e", "t", "e", "n", "t", "i", "o", "n">>
      [] category = "RESTRICTIONS_SCOPE" -> <<"R", "e", "s", "t", "r", "i", "c", "t", "i", "o", "n", "s", "/", "S", "c", "o", "p", "e">>
      [] category = "DYNAMIC_REFRESH" -> <<"D", "y", "n", "a", "m", "i", "c", " ", "R", "e", "f", "r", "e", "s", "h">>
      [] category = "RESET_CONDITIONS" -> <<"R", "e", "s", "e", "t", " ", "C", "o", "n", "d", "i", "t", "i", "o", "n", "s">>
      [] category = "SCROLLING" -> <<"S", "c", "r", "o", "l", "l", "i", "n", "g">>
      [] category = "ACCESSIBILITY" -> <<"A", "c", "c", "e", "s", "s", "i", "b", "i", "l", "i", "t", "y">>
      [] OTHER -> <<"O", "t", "h", "e", "r", "/", "G", "e", "n", "e", "r", "a", "l">>

\* TestCaseNaming.get_category_subcategory
get_category_subcategory(test_type) ==
    CASE test_type = "happy_path" -> <<<<"F", "u", "n", "c", "t", "i", "o", "n", "a", "l">>, <<"H", "a", "p", "p", "y", " ", "P", "a", "t", "h">>>>
      [] test_type = "negative" -> <<<<"F", "u", "n", "c", "t", "i", "o", "n", "a", "l">>, <<"N", "e", "g", "a", "t", "i", "v", "e">>>>
      [] test_type = "boundary" -> <<<<"F", "u", "n", "c", "t", "i", "o", "n", "a", "l">>, <<"B", "o", "u", "n", "d", "a", "r", "y">>>>
      [] test_type = "cancel_rollback" -> <<<<"F", "u", "n", "c", "t", "i", "o", "n", "a", "l">>, <<"C", "a", "n", "c", "e", "l", "/", "R", "o", "l", "l", "b", "a", "c", "k">>>>
      [] test_type = "persistence" -> <<<<"F", "u", "n", "c", "t", "i", "o", "n", "a", "l">>, <<"P", "e", "r", "s", "i", "s", "t", "e", "n", "c", "e">>>>
      [] test_type = "undo_redo" -> <<<<"F", "u", "n", "c", "t", "i", "o", "n", "a", "l">>, <<"U", "n", "d", "o", "/", "R", "e", "d", "o">>>>
      [] test_type = "accessibility" -> <<<<"A", "c", "c", "e", "s", "s", "i", "b", "i", "l", "i", "t", "y">>, <<"W", "C", "A", "G", " ", "2", ".", "1", " ", "A", "A">>>>
      [] test_type = "umbrella" -> <<<<"V", "e", "r", "i", "f", "i", "c", "a", "t", "i", "o", "n">>, <<"S", "i", "g", "n", "-", "o", "f", "f">>>>
      [] OTHER -> <<<<"F", "u", "n", "c", "t", "i", "o", "n", "a", "l">>, <<"G", "e", "n", "e", "r", "a", "l">>>>

\* The template catalog is data outside the code.  get_template falls back
\* from the exact match to the category and then to the Other/General
\* template, so a catalog is modelled by the one template every lookup ends
\* on, or by its absence.
NoTemplate == [present |-> FALSE, steps |-> <<>>, short_descriptor |-> <<>>]

\* TemplateEngine.get_short_descriptor
get_short_descriptor(template) ==
    IF template.present /\ template.short_descriptor # <<>>
    THEN template.short_descriptor
    ELSE <<"G", "e", "n", "e", "r", "a", "l", " ", "f", "u", "n", "c", "t", "i", "o", "n", "a", "l", "i", "t", "y">>

\* TemplateEngine.apply_template
apply_template(template, ac_text) ==
    [i \in 1..Len(template.steps) |->
        TestStep(template.steps[i].action, template.steps[i].expected, i)]

\* str.rstrip('.')
RECURSIVE RStripDots(_)
RStripDots(s) ==
    IF s # <<>> /\ s[Len(s)] = "." THEN RStripDots(SubSeq(s, 1, Len(s) - 1)) ELSE s

\* TemplateEngine.generate_steps
generate_steps(template, ac_text) ==
    IF ~template.present
    THEN <<TestStep(<<"Launch the application.">>,
                    <<"Application launches successfully and main window is displayed.">>, 1),
           TestStep(<<"Perform the action described in the acceptance criterion: ">> \o ac_text,
                    <<"Action completes successfully and ">> \o RStripDots(LowerText(ac_text)),
                    2)>>
    ELSE apply_template(template, ac_text)

\* the steps both _generate_negative_steps and _generate_boundary_steps start with
LeadingSteps(template, ac_text) ==
    LET base_steps == generate_steps(template, ac_text)
    IN IF base_steps # <<>>
       THEN <<base_steps[1],
              TestStep(<<"Navigate to the feature related to: ">> \o ac_text,
                       <<"Feature interface is displayed and accessible.">>, 2)>>
       ELSE <<>>

\* TestCaseFactory._generate_negative_steps
_generate_negative_steps(template, ac_text) ==
    LET steps == LeadingSteps(template, ac_text)
        step_num == Len(steps) + 1
    IN steps \o
       <<TestStep(<<"Attempt to perform the action with invalid input or conditions that should be rejected.">>,
                  <<"System displays appropriate error message and prevents invalid operation.">>,
                  step_num),
         TestStep(<<"Verify system state remains consistent after error.">>,
                  <<"System state is unchanged and no data corruption occurred.">>,
                  step_num + 1)>>

\* TestCaseFactory._generate_boundary_steps
_generate_boundary_steps(template, ac_text) ==
    LET steps == LeadingSteps(template, ac_text)
        step_num == Len(steps) + 1
    IN steps \o
       <<TestStep(<<"Test with minimum boundary value (if applicable).">>,
                  <<"System handles minimum value correctly.">>, step_num),
         TestStep(<<"Test with maximum boundary value (if applicable).">>,
                  <<"System handles maximum value correctly.">>, step_num + 1),
         TestStep(<<"Test with value just outside boundaries.">>,
                  <<"System rejects invalid boundary values with appropriate error message.">>,
                  step_num + 2)>>

\* TestCaseFactory._extract_feature_module
_extract_feature_module(story_title, ac_text) ==
    LET stripped == Strip(story_title)
        replaced == [i \in 1..Len(stripped) |->
                        IF stripped[i] \in {"/", "\\"} THEN "-" ELSE stripped[i]]
        limited == IF Len(replaced) > 50
                   THEN SubSeq(replaced, 1, 47) \o <<".", ".", ".">>
                   ELSE replaced
        feature == IF limited = <<>> THEN <<"W", "o", "r", "k", " ", "I", "t", "e", "m">> ELSE limited
        module == IF \/ Contains(LowerText(story_title), <<"p", "r", "o", "p", "e", "r", "t", "i", "e", "s", " ", "p", "a", "n", "e", "l">>)
                     \/ Contains(LowerText(ac_text), <<"p", "r", "o", "p", "e", "r", "t", "i", "e", "s", " ", "p", "a", "n", "e", "l">>)
                  THEN <<"P", "r", "o", "p", "e", "r", "t", "i", "e", "s", " ", "P", "a", "n", "e", "l">>
                  ELSE <<"C", "o", "r", "e">>
    IN <<feature, module>>

\* TestCaseFactory._generate_ac_hash: the digest is a function of the text
_generate_ac_hash(ac_text) == <<"sha1-of">> \o ac_text

TestCase(internal_id, title, steps, test_type, acceptance_criterion_id, story_id, tags) ==
    [internal_id |-> internal_id, title |-> title, steps |-> steps,
     test_type |-> test_type, acceptance_criterion_id |-> acceptance_criterion_id,
     story_id |-> story_id, tags |-> tags]

\* an absent value of an optional field is the empty sequence, a present
\* value v the sequence <<v>>
None == <<>>
Some(v) == <<v>>

\* what a call that raised leaves in place of a test case
NoTestCase == TestCase(<<>>, <<>>, <<>>, "none", None, 0, <<>>)

\* TestCaseFactory._generate_single_test_case: [raised, tc]
_generate_single_test_case(st, template, ac, test_type, index) ==
    LET internal_id == generate_internal_id(st.id, index)
        fm == _extract_feature_module(st.title, ac.text)
        by_type == get_category_subcategory(test_type)
        title_category == IF ac.category # "OTHER_GENERAL"
                          THEN CategoryValue(ac.category) ELSE by_type[1]
        title_subcategory == IF ac.category # "OTHER_GENERAL"
                             THEN ac.subcategory ELSE by_type[2]
        built == build(internal_id, fm[1], fm[2], title_category, title_subcategory,
                       get_short_descriptor(template))
        steps == CASE test_type = "negative" -> _generate_negative_steps(template, ac.text)
                   [] test_type = "boundary" -> _generate_boundary_steps(template, ac.text)
                   [] OTHER -> generate_steps(template, ac.text)
        tags == <<<<"story:">> \o Digits(st.id),
                  <<"generated-by:ado-testgen">>,
                  <<"gen-mode:rules">>,
                  <<"ac-hash:">> \o _generate_ac_hash(ac.text),
                  <<"ac:">> \o Digits(ac.id),
                  <<"test-type:", test_type>>>>
    IN IF built.raised # "ok" THEN [raised |-> TRUE, tc |-> NoTestCase]
       ELSE [raised |-> FALSE,
             tc |-> TestCase(internal_id, built.title, add_close_application_step(steps),
                             test_type, Some(ac.id), st.id, tags)]

\* no negative case for the limit/retention category either
_should_generate_negative_NotForLimits(category) ==
    category \notin {"RESTRICTIONS_SCOPE", "LIMIT_RETENTION"}

_should_generate_negative(category) == category # "RESTRICTIONS_SCOPE"

_should_generate_boundary(category) == category \in {"LIMIT_RETENTION", "ORDERING"}

\* the boundary case is appended whatever the number of cases so far
TestTypesForAc_BoundaryUncapped(max_tests_per_ac, category) ==
    LET after_primary == <<"happy_path">>
        after_negative ==
            IF Len(after_primary) < max_tests_per_ac /\ _should_generate_negative(category)
            THEN Append(after_primary, "negative") ELSE after_primary
    IN IF _should_generate_boundary(category)
       THEN Append(after_negative, "boundary") ELSE after_negative

\* the test types _generate_test_cases_for_ac generates for a criterion, in
\* the order in which it appends their cases
TestTypesForAc(max_tests_per_ac, category) ==
    LET after_primary == <<"happy_path">>
        after_negative ==
            IF Len(after_primary) < max_tests_per_ac /\ _should_generate_negative(category)
            THEN Append(after_primary, "negative") ELSE after_primary
    IN IF Len(after_negative) < max_tests_per_ac /\ _should_generate_boundary(category)
       THEN Append(after_negative, "boundary") ELSE after_negative

\* what a list of [raised, tc] results amounts to: [raised, cases]
Collected(results) ==
    [raised |-> \E i \in 1..Len(results) : results[i].raised,
     cases |-> [i \in 1..Len(results) |-> results[i].tc]]

\* the boundary case takes the index after the primary case whether or not a
\* negative case was generated
_generate_test_cases_for_ac_FixedOffset(st, template, max_tests_per_ac, ac, start_index) ==
    LET test_types == TestTypesForAc(max_tests_per_ac, ac.category)
    IN Collected([i \in 1..Len(test_types) |->
                     _generate_single_test_case(
                         st, template, ac, test_types[i],
                         IF test_types[i] = "boundary" THEN start_index + 1
                         ELSE start_index + (i - 1))])

\* TestCaseFactory._generate_test_cases_for_ac: [raised, cases]; current_index
\* starts at start_index and grows by one with every case appended
_generate_test_cases_for_ac(st, template, max_tests_per_ac, ac, start_index) ==
    LET test_types == TestTypesForAc(max_tests_per_ac, ac.category)
    IN Collected([i \in 1..Len(test_types) |->
                     _generate_single_test_case(st, template, ac, test_types[i],
                                                start_index + (i - 1))])

\* TestCaseFactory._generate_umbrella_test_case: [raised, tc]
_generate_umbrella_test_case(st, index) ==
    LET internal_id == generate_internal_id(st.id, index)
        cs == get_category_subcategory("umbrella")
        built == build(internal_id, <<"A", "c", "c", "e", "p", "t", "a", "n", "c", "e", " ", "C", "r", "i", "t", "e", "r", "i", "a", " ", "C", "o", "v", "e", "r", "a", "g", "e">>, <<"T", "e", "s", "t", " ", "C", "o", "v", "e", "r", "a", "g", "e">>,
                       cs[1], cs[2], <<"A", "l", "l", " ", "a", "c", "c", "e", "p", "t", "a", "n", "c", "e", " ", "c", "r", "i", "t", "e", "r", "i", "a", " ", "c", "o", "v", "e", "r", "a", "g", "e">>)
        steps ==
            <<TestStep(<<"Launch the application.">>,
                       <<"Application launches successfully and main window is displayed.">>, 1),
              TestStep(<<"Review all test cases generated for User Story ">> \o Digits(st.id)
                           \o <<".">>,
                       <<"All test cases are available and properly documented.">>, 2),
              TestStep(<<"Verify that each acceptance criterion has corresponding test coverage.">>,
                       <<"Every acceptance criterion is covered by at least one test case.">>, 3),
              TestStep(<<"Execute a representative sample of test cases to verify functionality.">>,
                       <<"All executed test cases pass and acceptance criteria are met.">>, 4),
              TestStep(<<"Sign off on test coverage completeness.">>,
                       <<"Test coverage is complete and ready for sign-off.">>, 5)>>
        tags == <<<<"story:">> \o Digits(st.id),
                  <<"generated-by:ado-testgen">>,
                  <<"gen-mode:rules">>,
                  <<"test-type:", "umbrella">>>>
    IN IF built.raised # "ok" THEN [raised |-> TRUE, tc |-> NoTestCase]
       ELSE [raised |-> FALSE,
             tc |-> TestCase(internal_id, built.title, add_close_application_step(steps),
                             "umbrella", None, st.id, tags)]

\* one pass of the loop of generate_all_test_cases: test_cases.extend and
\* test_case_index += len(ac_test_cases)
Extended(loop, ac_test_cases) ==
    [raised |-> loop.raised \/ ac_test_cases.raised,
     cases |-> loop.cases \o ac_test_cases.cases,
     test_case_index |-> loop.test_case_index + Len(ac_test_cases.cases)]

\* the loop of generate_all_test_cases over the criteria, from the state loop
\* on: [raised, cases, test_case_index]
RECURSIVE GenerateForCriteria(_, _, _, _, _)
GenerateForCriteria(st, template, max_tests_per_ac, acceptance_criteria, loop) ==
    IF acceptance_criteria = <<>> THEN loop
    ELSE GenerateForCriteria(
             st, template, max_tests_per_ac, Tail(acceptance_criteria),
             Extended(loop, _generate_test_cases_for_ac(
                                st, template, max_tests_per_ac, Head(acceptance_criteria),
                                loop.test_case_index)))

\* the umbrella case is put in front of the cases of the criteria
WithUmbrella_First(loop, umbrella) ==
    IF loop.raised \/ umbrella.raised THEN [raised |-> TRUE, cases |-> <<>>]
    ELSE [raised |-> FALSE, cases |-> <<umbrella.tc>> \o loop.cases]

\* the end of generate_all_test_cases: the umbrella case is appended; an error
\* raised while a case is built leaves the call without a result
WithUmbrella(loop, umbrella) ==
    IF loop.raised \/ umbrella.raised THEN [raised |-> TRUE, cases |-> <<>>]
    ELSE [raised |-> FALSE, cases |-> Append(loop.cases, umbrella.tc)]

AfterCriteria(st, loop) ==
    WithUmbrella(loop, _generate_umbrella_test_case(st, loop.test_case_index))

\* TestCaseFactory.generate_all_test_cases: [raised, cases]
generate_all_test_cases(st, template, max_tests_per_ac, acceptance_criteria) ==
    AfterCriteria(st, GenerateForCriteria(
                          st, template, max_tests_per_ac, acceptance_criteria,
                          [raised |-> FALSE, cases |-> <<>>, test_case_index |-> 0]))

----------------------------------------------------------------------------
(* ValidationGate: steps and canonicalization *)

Fence == <<"backtick", "backtick", "backtick">>

\* re.sub of a fenced code block, an opening fence up to the nearest closing
\* fence, by nothing
RECURSIVE RemoveCodeBlocks(_)
RemoveCodeBlocks(s) ==
    LET open == FindFrom(s, Fence, 1)
        close == IF open = 0 THEN 0 ELSE FindFrom(s, Fence, open + 3)
    IN IF close = 0 THEN s
       ELSE SubSeq(s, 1, open - 1) \o RemoveCodeBlocks(SubSeq(s, close + 3, Len(s)))

\* end of the longest run of tokens outside stop that starts at i (i - 1: none)
RECURSIVE RunEnd(_, _, _)
RunEnd(s, stop, i) ==
    IF i > Len(s) \/ s[i] \in stop THEN i - 1 ELSE RunEnd(s, stop, i + 1)

\* re.sub of open, a longest non-empty run without the character of stop, and
\* close, by the run
RECURSIVE Unwrap(_, _, _, _)
Unwrap(s, open, stop, close) ==
    IF s = <<>> THEN <<>>
    ELSE LET last == RunEnd(s, stop, Len(open) + 1)
             matches == /\ StartsWith(s, open)
                        /\ last >= Len(open) + 1
                        /\ last + Len(close) <= Len(s)
                        /\ SubSeq(s, last + 1, last + Len(close)) = close
         IN IF matches
            THEN SubSeq(s, Len(open) + 1, last)
                 \o Unwrap(SubSeq(s, last + Len(close) + 1, Len(s)), open, stop, close)
            ELSE <<Head(s)>> \o Unwrap(Tail(s), open, stop, close)

\* re.sub(r'^#+\s+', '', text, flags=re.MULTILINE): s from index i on, i being
\* at a line start iff at_line_start
RECURSIVE RemoveHeaders(_, _, _)
RemoveHeaders(s, i, at_line_start) ==
    IF i > Len(s) THEN <<>>
    ELSE LET hashes == RunEnd(s, {t \in {s[k] : k \in 1..Len(s)} : t # "#"}, i)
             spaces == RunEnd(s, {t \in {s[k] : k \in 1..Len(s)} : t \notin Whitespace},
                              hashes + 1)
         IN IF at_line_start /\ hashes >= i /\ spaces >= hashes + 1
            THEN RemoveHeaders(s, spaces + 1, s[spaces] = "\n")
            ELSE <<s[i]>> \o RemoveHeaders(s, i + 1, s[i] = "\n")

\* re.sub(r'\[([^\]]+)\]\([^\)]+\)', r'\1', text)
RECURSIVE RemoveLinks(_)
RemoveLinks(s) ==
    IF s = <<>> THEN <<>>
    ELSE LET label == RunEnd(s, {"]"}, 2)
             target == RunEnd(s, {")"}, label + 3)
             matches == /\ Head(s) = "["
                        /\ label >= 2
                        /\ label + 2 <= Len(s)
                        /\ SubSeq(s, label + 1, label + 2) = <<"]", "(">>
                        /\ target >= label + 3
                        /\ target < Len(s)
         IN IF matches
            THEN SubSeq(s, 2, label) \o RemoveLinks(SubSeq(s, target + 2, Len(s)))
            ELSE <<Head(s)>> \o RemoveLinks(Tail(s))

\* TestCaseValidator.strip_markdown
strip_markdown(text) ==
    LET no_blocks == RemoveCodeBlocks(text)
        no_code == Unwrap(no_blocks, <<"backtick">>, {"backtick"}, <<"backtick">>)
        no_headers == RemoveHeaders(no_code, 1, TRUE)
        no_bold == Unwrap(no_headers, <<"*", "*">>, {"*"}, <<"*", "*">>)
        no_italic == Unwrap(no_bold, <<"*">>, {"*"}, <<"*">>)
        no_links == RemoveLinks(no_italic)
    IN Strip(CollapseWhitespace(no_links))

\* TestCaseValidator.validate_steps
validate_steps(steps) ==
    /\ steps # <<>>
    /\ \A i \in 1..Len(steps) :
        /\ steps[i].action # <<>>
        /\ steps[i].expected_result # <<>>
        /\ ~StartsWith(steps[i].action, <<"#">>)
        /\ ~StartsWith(steps[i].expected_result, <<"#">>)
        /\ ~Contains(steps[i].action, Fence)
        /\ ~Contains(steps[i].expected_result, Fence)

\* the gate's rejection value
Rejected == [accepted |-> FALSE, raised |-> FALSE, tc |-> NoTestCase]

\* an exception that leaves the try block of the gate
Raised == [accepted |-> FALSE, raised |-> TRUE, tc |-> NoTestCase]

\* the try block of TestCaseValidator.validate_and_canonicalize: [accepted,
\* raised, tc].  A draft is [short_descriptor, steps, tags]; a step of the
\* draft is [action, expected, is_dict], is_dict FALSE for an entry on which
\* step_dict.get raises; first is the order of the sanitizer's loop.
TryBlock(testcase_draft, story_id, internal_id, feature, module, category, subcategory, first) ==
    LET short_descriptor == sanitize_short_descriptor(testcase_draft.short_descriptor,
                                                      first)
        built == build(internal_id, feature, module, category, subcategory,
                       short_descriptor)
        raw_steps == testcase_draft.steps
        steps == [i \in 1..Len(raw_steps) |->
                     TestStep(strip_markdown(raw_steps[i].action),
                              strip_markdown(raw_steps[i].expected), i)]
        appended == append_exit_step(steps)
        renumbered == [i \in 1..Len(appended) |->
                          TestStep(appended[i].action, appended[i].expected_result, i)]
        \* the first entry at which the loop over the raw steps stops
        stops(i) == \/ ~raw_steps[i].is_dict
                    \/ steps[i].action = <<>>
                    \/ steps[i].expected_result = <<>>
        first_stop == CHOOSE i \in 1..Len(raw_steps) :
                          stops(i) /\ \A j \in 1..(i - 1) : ~stops(j)
    IN IF ~validate_short_descriptor(short_descriptor) THEN Rejected
       ELSE IF built.raised # "ok" THEN Raised
       ELSE IF ~validate_title_format(built.title, internal_id) THEN Rejected
       ELSE IF raw_steps = <<>> THEN Rejected
       ELSE IF \E i \in 1..Len(raw_steps) : stops(i)
            THEN (IF ~raw_steps[first_stop].is_dict THEN Raised ELSE Rejected)
       ELSE IF ~validate_steps(steps) THEN Rejected
       ELSE [accepted |-> TRUE, raised |-> FALSE,
             tc |-> TestCase(internal_id, built.title, renumbered, "happy_path", None,
                             story_id, testcase_draft.tags)]

\* the exception leaves the gate
ExceptReturnsNone_Propagate(result) == result

\* the except clause of validate_and_canonicalize: an exception of the try
\* block becomes the rejection value
ExceptReturnsNone(result) == IF result.raised THEN Rejected ELSE result

\* TestCaseValidator.validate_and_canonicalize: [accepted, raised, tc]
validate_and_canonicalize(testcase_draft, story_id, internal_id, feature, module, category, subcategory, first) ==
    ExceptReturnsNone(TryBlock(testcase_draft, story_id, internal_id, feature, module,
                               category, subcategory, first))

----------------------------------------------------------------------------
(* Inputs of the synthesizer, the gate, the close-step operations and the
   title builder, and the values their variables hold when not in use *)

SeqsUpTo(S, n) == UNION {[1..k -> S] : k \in 0..n}
Repeat(c, n) == [i \in 1..n |-> c]

\* ---- synthesizer
Criterion(id, category) ==
    [id |-> id, text |-> <<"criterion-text-", DigitChar[(id % 10) + 1]>>,
     category |-> category, subcategory |-> <<"G", "e", "n", "e", "r", "a", "l">>]

\* criteria as _extract_acceptance_criteria numbers them, from 1
CriteriaOf(categories) == [i \in 1..Len(categories) |-> Criterion(i, categories[i])]

TemplateSteps(n) ==
    [i \in 1..n |-> [action |-> <<"template-action-", DigitChar[i + 1]>>,
                     expected |-> <<"template-expected-", DigitChar[i + 1]>>]]

Templates ==
    {NoTemplate,
     [present |-> TRUE, steps |-> TemplateSteps(0), short_descriptor |-> <<>>],
     [present |-> TRUE, steps |-> TemplateSteps(2), short_descriptor |-> <<"M", "e", "n", "u", " ", "e", "n", "t", "r", "y">>],
     [present |-> TRUE, steps |-> TemplateSteps(1), short_descriptor |-> <<"V", "e", "r", "i", "f", "y", " ", "m", "e", "n", "u">>]}

StoryTitles ==
    {<<"U", "n", "d", "o", " ", "h", "i", "s", "t", "o", "r", "y">>, <<" ", "P", "r", "o", "p", "e", "r", "t", "i", "e", "s", " ", "P", "a", "n", "e", "l", " ", "/", " ", "T", "a", "b", "s", " ">>, <<>>, Repeat("t", 51)}

SynthInput(id, title, template, max_tests_per_ac, categories) ==
    [story |-> [id |-> id, title |-> title], template |-> template,
     max_tests_per_ac |-> max_tests_per_ac, criteria |-> CriteriaOf(categories)]

SynthInputs ==
    \* every category, alone
    {SynthInput(StoryId, <<"U", "n", "d", "o", " ", "h", "i", "s", "t", "o", "r", "y">>, tp, m, <<c>>) :
        tp \in Templates, m \in 1..MaxTestsPerAc, c \in ACCategory}
    \cup
    \* short lists that mix the categories the rules tell apart
    {SynthInput(StoryId, <<"U", "n", "d", "o", " ", "h", "i", "s", "t", "o", "r", "y">>, tp, m, cs) :
        tp \in {NoTemplate, [present |-> TRUE, steps |-> TemplateSteps(2),
                             short_descriptor |-> <<"M", "e", "n", "u">>]},
        m \in 1..MaxTestsPerAc,
        cs \in SeqsUpTo({"ORDERING", "LIMIT_RETENTION", "RESTRICTIONS_SCOPE",
                         "OTHER_GENERAL", "SCROLLING"}, MaxACs)}
    \cup
    \* long lists of one category
    {SynthInput(id, <<"U", "n", "d", "o", " ", "h", "i", "s", "t", "o", "r", "y">>, NoTemplate, m, Repeat(c, n)) :
        id \in {7, 270542}, m \in 1..MaxTestsPerAc,
        c \in {"ORDERING", "RESTRICTIONS_SCOPE", "SCROLLING"}, n \in 0..MaxUniformACs}
    \cup
    \* story titles
    {SynthInput(id, t, tp, 2, <<c>>) :
        id \in {7, 270542}, t \in StoryTitles, tp \in Templates,
        c \in {"ORDERING", "OTHER_GENERAL"}}

NoSynthInput == SynthInput(0, <<>>, NoTemplate, 0, <<>>)
NoSynthOutput == [state |-> "none", cases |-> <<>>]

\* ---- gate
DraftStep(action, expected) == [action |-> action, expected |-> expected, is_dict |-> TRUE]

DraftSteps ==
    {DraftStep(<<"Open", " ", "file">>, <<"File", " ", "opens">>),
     DraftStep(EXIT_ACTION, EXIT_EXPECTED),
     DraftStep(EXIT_ACTION, <<"Closes">>),
     DraftStep(CloseAction, CloseExpected),
     DraftStep(<<"#", " ", "Open">>, <<"Opened">>),
     DraftStep(Fence \o <<"code">> \o Fence, <<"Done">>),
     DraftStep(Fence \o <<"code">>, <<"Done">>),
     DraftStep(Fence \o <<"code">> \o Fence \o <<" ", "Open">>, <<"Done">>),
     DraftStep(<<"*", "*", "Open", "*", "*">>, <<"[", "file", "]", "(", "link", ")">>),
     DraftStep(<<" ", "Open", " ", " ", "file", "\n">>, <<"backtick", "File", "backtick">>),
     DraftStep(<<>>, <<"Done">>),
     [action |-> <<>>, expected |-> <<>>, is_dict |-> FALSE]}

DraftDescriptors ==
    {<<"M", "e", "n", "u", "a-circumflex", ";", "euro-sign", "broken-bar">>,
     <<"M", "e", "n", "u", " ", "e", "n", "t", "r", "y">>, <<"M", "e", "n", "u", " ", "e", "n", "t", "r", "y", ".">>, <<"S", "e", "l", "e", "c", "t", "i", "o", "n", " ", "h", "i", "g", "h", "l", "i", "g", "h", "t">>, <<"V", "e", "r", "i", "f", "y", " ", "m", "e", "n", "u">>, <<>>}

GateInput(short_descriptor, steps, feature) ==
    [draft |-> [short_descriptor |-> short_descriptor, steps |-> steps,
                tags |-> <<<<"gen-mode:llm">>>>],
     story_id |-> StoryId, internal_id |-> generate_internal_id(StoryId, 1),
     feature |-> feature, module |-> <<"C", "o", "r", "e">>, category |-> <<"O", "r", "d", "e", "r", "i", "n", "g">>,
     subcategory |-> <<"G", "e", "n", "e", "r", "a", "l">>]

GateInputs ==
    {GateInput(d, ss, <<"U", "n", "d", "o", " ", "h", "i", "s", "t", "o", "r", "y">>) :
        d \in DraftDescriptors, ss \in SeqsUpTo(DraftSteps, MaxDraftSteps)}
    \cup
    \* a feature so long that the title is shortened
    {GateInput(d, <<DraftStep(<<"Open", " ", "file">>, <<"File", " ", "opens">>)>>,
               Repeat("f", n)) :
        d \in DraftDescriptors, n \in {MAX_TITLE_LENGTH - 40, MAX_TITLE_LENGTH}}

NoGateInput == GateInput(<<>>, <<>>, <<>>)
NoGateOutput == [state |-> "none", tc |-> NoTestCase]

\* ---- close-step operations
StepPool ==
    {TestStep(<<"Launch the application.">>, <<"Application launches.">>, 1),
     TestStep(<<"Action 1">>, <<"Expected 1">>, 5),
     TestStep(CloseAction, CloseExpected, 2),
     TestStep(EXIT_ACTION, EXIT_EXPECTED, 1),
     TestStep(EXIT_ACTION, <<"Closes">>, 3)}

StepLists == SeqsUpTo(StepPool, MaxSteps)

IdleGen ==
    /\ sy_in = NoSynthInput
    /\ sy_out = NoSynthOutput
    /\ gt_in = NoGateInput
    /\ gt_out = NoGateOutput
    /\ st_steps = <<>>
    /\ st_hist = <<>>

\* ---- title builder
TitleInput(internal_id, feature, short_descriptor) ==
    [internal_id |-> internal_id, feature |-> feature, module |-> <<"m">>,
     category |-> <<"c">>, subcategory |-> <<"s">>, short_descriptor |-> short_descriptor]

\* words that meet the descriptor grammar in different ways
WordPool ==
    {<<"a", "b">>, <<"d", "o">>, <<"D", "o">>, <<"u", "n", "d", "o">>, <<"d", "o", "_", "x">>, <<"d", "o", "-", "x">>, <<"a", ".">>, <<"a", ",", "b">>, <<"a", "/", "b">>,
     <<"T", "e", "s", "t">>, <<"S", "e", "l", "e", "c", "t", "i", "o", "n">>,
     <<"a-circumflex", "euro-sign", "broken-bar">>, <<"a-circumflex", "d", "o">>,
     <<"a-circumflex", ".", "euro-sign", "broken-bar">>}

Fillers(k) == Join([i \in 1..k |-> <<"a", "b">>], <<" ">>)

Descriptors ==
    {Join(ws, <<" ">>) : ws \in SeqsUpTo(WordPool, MaxPoolWords)}
    \cup {Fillers(k) : k \in 0..MaxFillers}
    \cup {Fillers(MAX_WORDS - 1) \o <<" ">> \o w : w \in WordPool}
    \cup {Fillers(MAX_WORDS) \o <<" ">> \o w : w \in WordPool}
    \cup {<<" ">>, <<" ", "\t">>, <<" ", "a", "b">>, <<"a", "b", " ", " ", "a", "b", " ">>, <<"a", "b", "\t", "a", "b">>,
          <<"a", "b", "\n", "d", "o">>}

\* descriptors of words of different lengths, for the length cap
LengthDescriptors ==
    {Fillers(k) : k \in 1..MAX_WORDS}
    \cup {Repeat("w", n) \o <<" ">> \o <<"a", "b">> : n \in 1..MaxWordLength}
    \cup {<<"a", "b">> \o <<" ">> \o Repeat("w", n) : n \in 1..MaxWordLength}

TitleInputs ==
    {TitleInput(generate_internal_id(StoryId, k), f, d) :
        k \in 0..1, f \in {<<"f">>, <<" ", "a", " ", "/", " ", " ", "b", "\\", "c", " ">>, <<>>}, d \in Descriptors}
    \cup
    \* features that leave from no room to ample room for the descriptor
    {TitleInput(generate_internal_id(StoryId, 0), Repeat("f", n), d) :
        n \in (MAX_TITLE_LENGTH - 50)..(MAX_TITLE_LENGTH - 20), d \in LengthDescriptors}

NoTitleInput == TitleInput(<<>>, <<>>, <<>>)
NoTitleOutput == [state |-> "none", raised |-> "none", title |-> <<>>]
NoCheck == [state |-> "none", sanitized |-> <<>>, gate |-> FALSE, builder |-> FALSE]

IdleTitle ==
    /\ tb_in = NoTitleInput
    /\ tb_out = NoTitleOutput
    /\ tb_check = NoCheck

----------------------------------------------------------------------------
(* Advisor: LLMPlanner.plan_scenarios and LLMStepWriter.write_steps *)

\* PlannerResponse.suggestions and StepWriterResponse.steps: max_length
PlannerMaxSuggestions == 2
StepWriterMaxSteps == 10

\* the number of passes of the retry loop, and the pass whose exception ends it
Attempts == 2
LastAttempt == 1

\* What the endpoint does on one call: the request fails ("timeout",
\* "http-error"), the reply is not the expected JSON ("not-json"), it does
\* not have the fields of the schema ("schema-invalid"), or it is a reply
\* with items that have the fields of the schema.
FailureKinds == {"timeout", "http-error", "not-json", "schema-invalid"}
EndpointFailure(kind) == [kind |-> kind, items |-> <<>>]
EndpointReply(reply_items) == [kind |-> "reply", items |-> reply_items]

\* _call_azure_openai: [raised, response]; requests.post, raise_for_status,
\* json.loads and the schema's constructor raise, the latter also for more
\* items than max_length
_call_azure_openai_AnyLength(behaviour, max_length) ==
    IF behaviour.kind # "reply"
    THEN [raised |-> TRUE, response |-> <<>>]
    ELSE [raised |-> FALSE, response |-> behaviour.items]

_call_azure_openai(behaviour, max_length) ==
    IF behaviour.kind # "reply" \/ Len(behaviour.items) > max_length
    THEN [raised |-> TRUE, response |-> <<>>]
    ELSE [raised |-> FALSE, response |-> behaviour.items]

\* the exception of the last attempt leaves the function
RECURSIVE RetryLoop_Reraise(_, _, _)
RetryLoop_Reraise(behaviours, max_length, attempt) ==
    IF attempt >= Attempts THEN [raised |-> FALSE, result |-> <<>>, calls |-> attempt]
    ELSE LET response == _call_azure_openai(behaviours[attempt + 1], max_length)
         IN IF ~response.raised
            THEN [raised |-> FALSE, result |-> response.response, calls |-> attempt + 1]
            ELSE IF attempt = LastAttempt
            THEN [raised |-> TRUE, result |-> <<>>, calls |-> attempt + 1]
            ELSE RetryLoop_Reraise(behaviours, max_length, attempt + 1)

\* the retry loop of plan_scenarios and write_steps from pass attempt on:
\* [raised, result, calls]; behaviours[k] is what the endpoint does on the
\* k-th call
RECURSIVE RetryLoop(_, _, _)
RetryLoop(behaviours, max_length, attempt) ==
    IF attempt >= Attempts THEN [raised |-> FALSE, result |-> <<>>, calls |-> attempt]
    ELSE LET response == _call_azure_openai(behaviours[attempt + 1], max_length)
         IN IF ~response.raised
            THEN [raised |-> FALSE, result |-> response.response, calls |-> attempt + 1]
            ELSE IF attempt = LastAttempt
            THEN [raised |-> FALSE, result |-> <<>>, calls |-> attempt + 1]
            ELSE RetryLoop(behaviours, max_length, attempt + 1)

\* LLMPlanner.plan_scenarios: [raised, result, calls]
plan_scenarios(configured, behaviours) ==
    IF ~configured THEN [raised |-> FALSE, result |-> <<>>, calls |-> 0]
    ELSE RetryLoop(behaviours, PlannerMaxSuggestions, 0)

\* LLMStepWriter.write_steps: [raised, result, calls]
write_steps(configured, behaviours) ==
    IF ~configured THEN [raised |-> FALSE, result |-> <<>>, calls |-> 0]
    ELSE RetryLoop(behaviours, StepWriterMaxSteps, 0)

\* ---- inputs of the advisor
ScenarioSuggestion(category, subcategory, short_descriptor) ==
    [category |-> category, subcategory |-> subcategory,
     short_descriptor |-> short_descriptor]

LLMTestStep(action, expected) == [action |-> action, expected |-> expected]

ASuggestion == ScenarioSuggestion(<<"O", "r", "d", "e", "r", "i", "n", "g">>, <<"E", "d", "g", "e">>, <<"M", "e", "n", "u", " ", "e", "n", "t", "r", "y">>)
AStep == LLMTestStep(<<"Open", " ", "file">>, <<"File", " ", "opens">>)

PlannerBehaviours ==
    {EndpointFailure(k) : k \in FailureKinds}
    \cup {EndpointReply(Repeat(ASuggestion, n)) : n \in 0..(PlannerMaxSuggestions + 1)}

StepWriterBehaviours ==
    {EndpointFailure(k) : k \in FailureKinds}
    \cup {EndpointReply(Repeat(AStep, n)) : n \in {0, 1, StepWriterMaxSteps, StepWriterMaxSteps + 1}}

AdvisorInput(fn, configured, behaviours) ==
    [fn |-> fn, configured |-> configured, behaviours |-> behaviours]

AdvisorInputs ==
    {AdvisorInput("plan_scenarios", c, bs) :
        c \in BOOLEAN, bs \in [1..Attempts -> PlannerBehaviours]}
    \cup
    {AdvisorInput("write_steps", c, bs) :
        c \in BOOLEAN, bs \in [1..Attempts -> StepWriterBehaviours]}

NoAdvisorInput == AdvisorInput("none", FALSE, <<>>)
NoAdvisorOutput == [state |-> "none", result |-> <<>>, calls |-> 0]

----------------------------------------------------------------------------
(* ValidationGate: EmbeddingDeduper, FuzzyDeduper and HybridDeduper *)

\* HybridDeduper.__init__: the cosine similarity threshold, in hundredths,
\* and the ratio threshold, in points of 100
EMBEDDING_THRESHOLD == 88
FUZZY_THRESHOLD == 88

\* what both libraries return for two equal texts: cosine similarity 1.00 and
\* ratio 100
Identical == 100

\* sklearn's cosine_similarity of the embeddings of two texts, in hundredths:
\* 1.00 for equal texts, otherwise the value the model gives for the pair
cosine_similarity(candidate_text, existing_text, value) ==
    IF candidate_text = existing_text THEN Identical ELSE value

\* rapidfuzz's fuzz.ratio: 100 for equal texts, otherwise the value the
\* library gives for the pair
fuzz_ratio(s1, s2, value) == IF s1 = s2 THEN Identical ELSE value

\* the action and the expected result of every step, in order
StepParts(steps) ==
    [i \in 1..(2 * Len(steps)) |->
        IF i % 2 = 1 THEN steps[(i + 1) \div 2].action
        ELSE steps[i \div 2].expected_result]

\* EmbeddingDeduper._build_text
_build_text(test_case) == Join(<<test_case.title>> \o StepParts(test_case.steps), <<" ">>)

\* FuzzyDeduper._normalize
_normalize(text) == Join(SplitWords(LowerText(text)), <<" ">>)

\* FuzzyDeduper._build_steps_text
_build_steps_text(test_case) == _normalize(Join(StepParts(test_case.steps), <<" ">>))

\* What the libraries do for one pair of test cases: the embedding call
\* raises or gives a similarity, the ratio call raises at the titles, at the
\* step texts or never, and gives the two ratios.
LibraryOutcome(embedding_raises, similarity, fuzzy_raises, title_ratio, steps_ratio) ==
    [embedding_raises |-> embedding_raises, similarity |-> similarity,
     fuzzy_raises |-> fuzzy_raises, title_ratio |-> title_ratio,
     steps_ratio |-> steps_ratio]

\* a deduper: which backends are enabled (library imported, model loaded) and
\* what the libraries do for each pair <<candidate, existing_test>>
Deduper(embedding_enabled, fuzzy_enabled, library) ==
    [embedding_enabled |-> embedding_enabled, fuzzy_enabled |-> fuzzy_enabled,
     library |-> library]

\* the similarity comparison inside the try block of EmbeddingDeduper.is_duplicate
SimilarityExceeds(outcome, candidate, existing_test, threshold) ==
    IF outcome.embedding_raises THEN FALSE
    ELSE cosine_similarity(_build_text(candidate), _build_text(existing_test),
                           outcome.similarity) > threshold

\* EmbeddingDeduper.is_duplicate
EmbeddingDeduper_is_duplicate(deduper, candidate, existing_test, threshold) ==
    IF ~deduper.embedding_enabled THEN FALSE
    ELSE SimilarityExceeds(deduper.library[<<candidate, existing_test>>], candidate,
                           existing_test, threshold)

\* the two ratio comparisons inside the try block of FuzzyDeduper.is_duplicate
RatioExceeds(outcome, candidate, existing_test, threshold) ==
    IF outcome.fuzzy_raises = "title" THEN FALSE
    ELSE IF fuzz_ratio(_normalize(candidate.title), _normalize(existing_test.title),
                       outcome.title_ratio) > threshold THEN TRUE
    ELSE IF outcome.fuzzy_raises = "steps" THEN FALSE
    ELSE IF fuzz_ratio(_build_steps_text(candidate), _build_steps_text(existing_test),
                       outcome.steps_ratio) > threshold THEN TRUE
    ELSE FALSE

\* FuzzyDeduper.is_duplicate
FuzzyDeduper_is_duplicate(deduper, candidate, existing_test, threshold) ==
    IF ~deduper.fuzzy_enabled THEN FALSE
    ELSE RatioExceeds(deduper.library[<<candidate, existing_test>>], candidate,
                      existing_test, threshold)

\* both signals are required
HybridDeduper_is_duplicate_Both(deduper, candidate, existing_test) ==
    /\ deduper.embedding_enabled
    /\ EmbeddingDeduper_is_duplicate(deduper, candidate, existing_test, EMBEDDING_THRESHOLD)
    /\ deduper.fuzzy_enabled
    /\ FuzzyDeduper_is_duplicate(deduper, candidate, existing_test, FUZZY_THRESHOLD)

\* HybridDeduper.is_duplicate
HybridDeduper_is_duplicate(deduper, candidate, existing_test) ==
    IF /\ deduper.embedding_enabled
       /\ EmbeddingDeduper_is_duplicate(deduper, candidate, existing_test, EMBEDDING_THRESHOLD)
    THEN TRUE
    ELSE IF /\ deduper.fuzzy_enabled
            /\ FuzzyDeduper_is_duplicate(deduper, candidate, existing_test, FUZZY_THRESHOLD)
    THEN TRUE
    ELSE FALSE

\* the test is compared with the test accepted last only
DedupStep_LastOnly(deduper, acc, test) ==
    IF /\ acc.deduplicated # <<>>
       /\ HybridDeduper_is_duplicate(deduper, test,
                                     acc.deduplicated[Len(acc.deduplicated)])
    THEN [acc EXCEPT !.deduped_count = @ + 1]
    ELSE [acc EXCEPT !.deduplicated = Append(@, test)]

\* one pass of the loop of _deduplicate_tests over test: the test is counted
\* as dropped if it is a duplicate of a test already accepted, and accepted
\* otherwise
DedupStep(deduper, acc, test) ==
    IF \E k \in 1..Len(acc.deduplicated) :
           HybridDeduper_is_duplicate(deduper, test, acc.deduplicated[k])
    THEN [acc EXCEPT !.deduped_count = @ + 1]
    ELSE [acc EXCEPT !.deduplicated = Append(@, test)]

RECURSIVE DedupLoop(_, _, _, _)
DedupLoop(deduper, all_tests, i, acc) ==
    IF i > Len(all_tests) THEN acc
    ELSE DedupLoop(deduper, all_tests, i + 1, DedupStep(deduper, acc, all_tests[i]))

\* HybridPipeline._deduplicate_tests: [deduplicated, deduped_count]
_deduplicate_tests(deduper, all_tests) ==
    DedupLoop(deduper, all_tests, 1, [deduplicated |-> <<>>, deduped_count |-> 0])

\* ---- inputs of the deduper
MaxDedupTests == 3

\* the pairs <<candidate, existing>> the loop can compare
PairsOf(all_tests) ==
    UNION {{<<all_tests[i], all_tests[j]>> : j \in 1..(i - 1)} : i \in 1..Len(all_tests)}

DedupCase(id, title, steps) ==
    TestCase(id, id \o <<":", " ">> \o title, steps, "happy_path", None, StoryId, <<>>)

OneStep == <<TestStep(<<"Open", " ", "file">>, <<"File", " ", "opens">>, 1)>>
OtherStep == <<TestStep(<<"Save", " ", "file">>, <<"File", " ", "saved">>, 1)>>

\* test cases that are equal, that differ only in the internal ID, whose
\* titles differ only in case and spacing, and that differ in everything
DedupPool ==
    {DedupCase(<<"2", "7", "-", "A", "C", "1">>, <<"U", "n", "d", "o", " ", "/", " ", "M", "e", "n", "u">>, OneStep),
     DedupCase(<<"2", "7", "-", "0", "0", "5">>, <<"U", "n", "d", "o", " ", "/", " ", "M", "e", "n", "u">>, OneStep),
     DedupCase(<<"2", "7", "-", "a", "c", "1">>, <<" ", "u", "n", "d", "o", " ", " ", "/", " ", "m", "e", "n", "u", " ">>, OtherStep),
     DedupCase(<<"2", "7", "-", "0", "1", "0">>, <<"R", "e", "d", "o", " ", "/", " ", "T", "a", "b", "s">>, <<>>)}

PairOutcomes ==
    {LibraryOutcome(er, sim, fr, tr, sr) :
        er \in BOOLEAN, sim \in {EMBEDDING_THRESHOLD, EMBEDDING_THRESHOLD + 1},
        fr \in {"never", "title", "steps"},
        tr \in {FUZZY_THRESHOLD, FUZZY_THRESHOLD + 1},
        sr \in {FUZZY_THRESHOLD, FUZZY_THRESHOLD + 1}}

ListOutcomes ==
    {LibraryOutcome(FALSE, EMBEDDING_THRESHOLD, "never", FUZZY_THRESHOLD, FUZZY_THRESHOLD),
     LibraryOutcome(FALSE, EMBEDDING_THRESHOLD + 1, "never", FUZZY_THRESHOLD + 1, FUZZY_THRESHOLD)}

DedupInput(kind, deduper, all_tests) ==
    [kind |-> kind, deduper |-> deduper, all_tests |-> all_tests]

\* one call of is_duplicate(candidate, existing): all_tests is <<existing, candidate>>
PairInputs ==
    {DedupInput("pair", Deduper(ee, fe, (<<c, e>> :> o)), <<e, c>>) :
        ee \in BOOLEAN, fe \in BOOLEAN, o \in PairOutcomes, c \in DedupPool, e \in DedupPool}

\* one call of _deduplicate_tests(all_tests)
ListInputsOf(all_tests) ==
    {DedupInput("list", Deduper(ee, fe, lib), all_tests) :
        ee \in BOOLEAN, fe \in BOOLEAN, lib \in [PairsOf(all_tests) -> ListOutcomes]}

ListInputs == UNION {ListInputsOf(ts) : ts \in SeqsUpTo(DedupPool, MaxDedupTests)}

NoDeduper == Deduper(FALSE, FALSE, <<>>)
NoDedupInput == DedupInput("none", NoDeduper, <<>>)
NoDedupOutput == [state |-> "none", flag |-> FALSE, deduplicated |-> <<>>, deduped_count |-> 0]

----------------------------------------------------------------------------
(* HybridPipeline: stages A to D of run_hybrid_pipeline, and the same stages
   of TestCaseOrchestrator.generate_and_publish *)

\* the fields of the UserStory model; reading any other attribute of a
\* story raises AttributeError
UserStoryFields ==
    {"id", "title", "description_html", "description_text",
     "acceptance_criteria_html", "acceptance_criteria"}

HasAttribute(name) == name \in UserStoryFields

\* max_tests_per_ac of the factory both pipelines build
PipelineMaxTestsPerAc == 2

\* HybridPipeline.__init__: llm_enabled
llm_enabled(hy) == hy.planner_configured /\ hy.writer_configured

WithTag(cases, tag) == [i \in 1..Len(cases) |-> [cases[i] EXCEPT !.tags = Append(@, tag)]]

\* _generate_baseline: [raised, cases]
_generate_baseline(hy) ==
    LET generated == generate_all_test_cases(hy.story, hy.template,
                                             PipelineMaxTestsPerAc, hy.criteria)
    IN [raised |-> generated.raised, cases |-> WithTag(generated.cases, <<"src:baseline">>)]

\* the feature and the module _generate_llm_tests reads from the first
\* baseline title
DefaultFeatureModule ==
    [feature |-> <<"F", "e", "a", "t", "u", "r", "e">>, module |-> <<"M", "o", "d", "u", "l", "e">>]

FromTitleParts(title_parts) ==
    IF Len(title_parts) >= 3
    THEN [feature |-> title_parts[2], module |-> title_parts[3]]
    ELSE DefaultFeatureModule

FeatureModule(baseline_tests) ==
    IF baseline_tests = <<>> THEN DefaultFeatureModule
    ELSE FromTitleParts(SplitOn(baseline_tests[1].title, TitleSep))

\* HybridPipeline._hash_ac: the first 8 hex digits of the SHA1 of the text
_hash_ac(ac_text) == <<"sha1-of">> \o ac_text

\* the draft handed to the gate for one suggestion
Draft(st, ac, sanitized, steps) ==
    [short_descriptor |-> sanitized,
     steps |-> [i \in 1..Len(steps) |-> DraftStep(steps[i].action, steps[i].expected)],
     tags |-> <<<<"story:">> \o Digits(st.id), <<"generated-by:ado-testgen">>,
                <<"mode:hybrid">>, <<"ac-hash:">> \o _hash_ac(ac.text), <<"src:llm">>>>]

\* if validated_test: llm_tests.append(validated_test)
AppendValidated(llm_tests, validated_test) ==
    IF validated_test.accepted THEN Append(llm_tests, validated_test.tc) ELSE llm_tests

\* the part of the loop body after write_steps
AfterWriteSteps(hy, ac, suggestion, sanitized, steps, baseline_tests, llm_tests) ==
    IF steps = <<>> THEN llm_tests
    ELSE AppendValidated(
             llm_tests,
             validate_and_canonicalize(
                 Draft(hy.story, ac, sanitized, steps), hy.story.id,
                 generate_internal_id(hy.story.id, Len(baseline_tests) + Len(llm_tests)),
                 FeatureModule(baseline_tests).feature,
                 FeatureModule(baseline_tests).module,
                 suggestion.category, suggestion.subcategory, hy.first))

\* the part of the loop body after the descriptor is sanitized
AfterSanitize(hy, ac, suggestion, sanitized, baseline_tests, llm_tests) ==
    IF ~validate_short_descriptor(sanitized) THEN llm_tests
    ELSE AfterWriteSteps(hy, ac, suggestion, sanitized,
                         write_steps(hy.writer_configured, hy.writer_behaviours).result,
                         baseline_tests, llm_tests)

\* the loop over the suggestions of one criterion, from suggestion k on
RECURSIVE SuggestionLoop(_, _, _, _, _, _)
SuggestionLoop(hy, ac, suggestions, k, baseline_tests, llm_tests) ==
    IF k > Len(suggestions) THEN llm_tests
    ELSE SuggestionLoop(hy, ac, suggestions, k + 1, baseline_tests,
                        AfterSanitize(hy, ac, suggestions[k],
                                      sanitize_short_descriptor(
                                          suggestions[k].short_descriptor, hy.first),
                                      baseline_tests, llm_tests))

\* the loop over the criteria, from criterion i on: [raised, llm_tests]; the
\* arguments of plan_scenarios are evaluated before the call, and
\* story.description is one of them
RECURSIVE CriteriaLoop(_, _, _, _)
CriteriaLoop(hy, i, baseline_tests, llm_tests) ==
    IF i > Len(hy.criteria) THEN [raised |-> FALSE, llm_tests |-> llm_tests]
    ELSE IF ~HasAttribute("description") THEN [raised |-> TRUE, llm_tests |-> <<>>]
    ELSE CriteriaLoop(hy, i + 1, baseline_tests,
                      SuggestionLoop(hy, hy.criteria[i],
                                     plan_scenarios(hy.planner_configured,
                                                    hy.planner_behaviours).result,
                                     1, baseline_tests, llm_tests))

\* _generate_llm_tests: [raised, llm_tests]
_generate_llm_tests(hy, baseline_tests) == CriteriaLoop(hy, 1, baseline_tests, <<>>)

\* the summary of a run that ended in the except clause, after the given
\* baseline count was stored
PipelineError(origin, baseline_count) ==
    [state |-> "done", errors |-> <<"Pipeline error", "traceback">>, origin |-> origin,
     baseline_count |-> baseline_count, llm_suggested |-> 0, llm_accepted |-> 0,
     llm_rejected_validation |-> 0, llm_rejected_duplicate |-> 0, final_tests |-> <<>>]

NoCriteriaFound ==
    [state |-> "done", errors |-> <<"No acceptance criteria found">>, origin |-> "none",
     baseline_count |-> 0, llm_suggested |-> 0, llm_accepted |-> 0,
     llm_rejected_validation |-> 0, llm_rejected_duplicate |-> 0, final_tests |-> <<>>]

IsLlm(test) == \E k \in 1..Len(test.tags) : test.tags[k] = <<"src:llm">>

\* stage D and the counts of the summary
AfterDedup(baseline_tests, llm_tests, dedup) ==
    [state |-> "done", errors |-> <<>>, origin |-> "none",
     baseline_count |-> Len(baseline_tests), llm_suggested |-> Len(llm_tests),
     llm_accepted |-> Len(SelectSeq(dedup.deduplicated, IsLlm)),
     llm_rejected_validation |->
         Len(llm_tests) - Len(SelectSeq(dedup.deduplicated, IsLlm)) - dedup.deduped_count,
     llm_rejected_duplicate |-> dedup.deduped_count,
     final_tests |-> dedup.deduplicated]

\* the deduper of a run: the libraries do the same for every pair
DeduperOf(hy, all_tests) ==
    Deduper(hy.embedding_enabled, hy.fuzzy_enabled,
            [p \in PairsOf(all_tests) |-> hy.outcome])

MergeAndDeduplicate(hy, baseline_tests, llm_tests) ==
    AfterDedup(baseline_tests, llm_tests,
               _deduplicate_tests(DeduperOf(hy, baseline_tests \o llm_tests),
                                  baseline_tests \o llm_tests))

\* stage C
AfterLlm(hy, baseline_tests, llm) ==
    IF llm.raised THEN PipelineError("story.description", Len(baseline_tests))
    ELSE MergeAndDeduplicate(hy, baseline_tests, llm.llm_tests)

\* stage B
AfterBaseline(hy, baseline) ==
    IF baseline.raised THEN PipelineError("baseline", 0)
    ELSE AfterLlm(hy, baseline.cases,
                  IF llm_enabled(hy) THEN _generate_llm_tests(hy, baseline.cases)
                  ELSE [raised |-> FALSE, llm_tests |-> <<>>])

\* run_hybrid_pipeline up to the publishing stage: the summary, and in
\* final_tests the test cases handed to the publishing stage
run_hybrid_pipeline(hy) ==
    IF hy.fetch # "ok" THEN PipelineError("fetch", 0)
    ELSE IF hy.criteria = <<>> THEN NoCriteriaFound
    ELSE AfterBaseline(hy, _generate_baseline(hy))

\* generate_and_publish up to the publishing stage, on the same story
RulesOnly(generated) ==
    IF generated.raised
    THEN [errors |-> <<"Fatal error">>, test_cases |-> <<>>]
    ELSE [errors |-> <<>>, test_cases |-> generated.cases]

generate_and_publish(hy) ==
    IF hy.fetch # "ok" THEN [errors |-> <<"Fatal error">>, test_cases |-> <<>>]
    ELSE IF hy.criteria = <<>>
    THEN [errors |-> <<"No acceptance criteria found">>, test_cases |-> <<>>]
    ELSE RulesOnly(generate_all_test_cases(hy.story, hy.template,
                                           PipelineMaxTestsPerAc, hy.criteria))

\* ---- inputs of the hybrid pipeline
HybridInput(fetch, template, categories, pcf, wcf, pb, wb, ee, fe, outcome) ==
    [fetch |-> fetch,
     story |-> [id |-> StoryId, title |-> <<"U", "n", "d", "o", " ", "h", "i", "s", "t", "o", "r", "y">>],
     template |-> template, criteria |-> CriteriaOf(categories),
     planner_configured |-> pcf, writer_configured |-> wcf,
     planner_behaviours |-> pb, writer_behaviours |-> wb,
     embedding_enabled |-> ee, fuzzy_enabled |-> fe, outcome |-> outcome, first |-> {}]

\* what the advisor does in a run: every call fails, or every reply is empty,
\* or the replies hold a suggestion and a step
RunPlannerBehaviours ==
    {[k \in 1..Attempts |-> EndpointFailure("timeout")],
     [k \in 1..Attempts |-> EndpointReply(<<>>)],
     [k \in 1..Attempts |-> EndpointReply(<<ASuggestion>>)]}

RunWriterBehaviours ==
    {[k \in 1..Attempts |-> EndpointFailure("http-error")],
     [k \in 1..Attempts |-> EndpointReply(<<AStep>>)]}

HybridInputs ==
    {HybridInput("ok", tp, cs, pcf, wcf, pb, wb, ee, fe, o) :
        tp \in Templates, cs \in SeqsUpTo({"ORDERING", "OTHER_GENERAL"}, MaxACs),
        pcf \in BOOLEAN, wcf \in BOOLEAN, pb \in RunPlannerBehaviours,
        wb \in RunWriterBehaviours, ee \in BOOLEAN, fe \in BOOLEAN, o \in ListOutcomes}
    \cup
    {HybridInput("fails", NoTemplate, <<"ORDERING">>, pcf, pcf, pb, wb, FALSE, FALSE, o) :
        pcf \in BOOLEAN, pb \in RunPlannerBehaviours, wb \in RunWriterBehaviours,
        o \in ListOutcomes}

NoHybridInput ==
    HybridInput("none", NoTemplate, <<>>, FALSE, FALSE, <<>>, <<>>, FALSE, FALSE,
                LibraryOutcome(FALSE, 0, "never", 0, 0))

NoHybridOutput ==
    [state |-> "none", errors |-> <<>>, origin |-> "none", baseline_count |-> 0,
     llm_suggested |-> 0, llm_accepted |-> 0, llm_rejected_validation |-> 0,
     llm_rejected_duplicate |-> 0, final_tests |-> <<>>]

IdleHyb ==
    /\ ad_in = NoAdvisorInput
    /\ ad_out = NoAdvisorOutput
    /\ dd_in = NoDedupInput
    /\ dd_out = NoDedupOutput
    /\ hy_in = NoHybridInput
    /\ hy_out = NoHybridOutput

----------------------------------------------------------------------------
(* CriteriaSplitter: ACSplitter *)

\* the characters of the class [...] of BULLET_PATTERN and of the pattern of
\* _split_bullets, as the source file holds them: U+201A, U+00C4, U+0118, the
\* hyphen and the asterisk.  The bullet character U+2022 is the token "bullet".
BulletClass == {"low-quote", "A-diaeresis", "E-ogonek", "-", "*"}

\* the class [.!?] of the pattern of _split_sentences
SentenceEnd == {".", "!", "?"}

\* len(sentence) > 10
MinSentenceLength == 10

IsDigit(c) == c \in {DigitChar[i] : i \in 1..10}

\* what \s* consumes from position i: the first position >= i that holds no
\* whitespace
RECURSIVE SkipWhitespace(_, _)
SkipWhitespace(text, i) ==
    IF i <= Len(text) /\ text[i] \in Whitespace THEN SkipWhitespace(text, i + 1) ELSE i

\* what \d* consumes from position i
RECURSIVE SkipDigits(_, _)
SkipDigits(text, i) ==
    IF i <= Len(text) /\ IsDigit(text[i]) THEN SkipDigits(text, i + 1) ELSE i

\* [.)] at position j, after the digits that start at i
MarkerAfterDigits(text, i, j) ==
    IF j > i /\ j <= Len(text) /\ text[j] \in {".", ")"} THEN j + 1 ELSE 0

\* \d+[.)] at position i: the position after it, 0 when it does not match
NumberMarkerEnd(text, i) == MarkerAfterDigits(text, i, SkipDigits(text, i))

\* the positions where ^ matches: the start of the text and, with
\* re.MULTILINE, the position after every newline
LineStarts(text, multiline) ==
    {1} \cup (IF multiline THEN {i + 1 : i \in {k \in 1..Len(text) : text[k] = "\n"}}
              ELSE {})

AfterMarker(text, m) == IF m = 0 THEN 0 ELSE SkipWhitespace(text, m)

\* NUMBERED_PATTERN, with ^ at position p: the position after the match, 0
\* when it does not match
NumberedEnd(text, p) == AfterMarker(text, NumberMarkerEnd(text, SkipWhitespace(text, p)))

\* [class]\s+ at position j: the position after the match, 0 when it does not
\* match
BulletEndAt(text, j) ==
    IF j + 1 <= Len(text) /\ text[j] \in BulletClass /\ text[j + 1] \in Whitespace
    THEN SkipWhitespace(text, j + 1)
    ELSE 0

\* BULLET_PATTERN, with ^ at position p
BulletEnd(text, p) == BulletEndAt(text, SkipWhitespace(text, p))

\* re.search(NUMBERED_PATTERN, text, re.MULTILINE)
SearchNumbered(text) == \E p \in LineStarts(text, TRUE) : NumberedEnd(text, p) # 0

\* re.search(BULLET_PATTERN, text, re.MULTILINE)
SearchBullet(text) == \E p \in LineStarts(text, TRUE) : BulletEnd(text, p) # 0

\* The separators of the three calls of re.split: for every position, the
\* position after the separator that starts there, 0 when none starts there.
\* _split_numbered: a newline, whitespace, and a number marker ahead
NumberedSeparator(text) ==
    [i \in 1..Len(text) |->
        IF text[i] = "\n" /\ NumberMarkerEnd(text, SkipWhitespace(text, i + 1)) # 0
        THEN SkipWhitespace(text, i + 1)
        ELSE 0]

\* _split_bullets: a newline, whitespace, a character of the class, whitespace
BulletSeparator(text) ==
    [i \in 1..Len(text) |-> IF text[i] = "\n" THEN BulletEnd(text, i + 1) ELSE 0]

\* _split_sentences: whitespace that follows a character of [.!?]
SentenceSeparator(text) ==
    [i \in 1..Len(text) |->
        IF i > 1 /\ text[i] \in Whitespace /\ text[i - 1] \in SentenceEnd
        THEN SkipWhitespace(text, i)
        ELSE 0]

MinOf(S) == CHOOSE i \in S : \A j \in S : i <= j

\* re.split: the parts of text between the separators, from position from on
RECURSIVE SplitFrom(_, _, _)
RECURSIVE SplitAtFirst(_, _, _, _)
SplitAtFirst(text, from, separator, at) ==
    IF at = {} THEN <<SubSeq(text, from, Len(text))>>
    ELSE <<SubSeq(text, from, MinOf(at) - 1)>>
             \o SplitFrom(text, separator[MinOf(at)], separator)

SplitFrom(text, from, separator) ==
    SplitAtFirst(text, from, separator, {i \in from..Len(text) : separator[i] # 0})

StripAll(parts) == [i \in 1..Len(parts) |-> Strip(parts[i])]

NonEmptyPart(part) == part # <<>>

\* re.sub(NUMBERED_PATTERN, '', part): without re.MULTILINE the pattern
\* matches at the start of the part only
RemoveNumbering(part) ==
    IF NumberedEnd(part, 1) # 0 THEN SubSeq(part, NumberedEnd(part, 1), Len(part))
    ELSE part

RemoveNumberingAll(parts) == [i \in 1..Len(parts) |-> RemoveNumbering(parts[i])]

\* ACSplitter._split_numbered
_split_numbered(text) ==
    SelectSeq(StripAll(RemoveNumberingAll(SplitFrom(text, 1, NumberedSeparator(text)))),
              NonEmptyPart)

\* ACSplitter._split_bullets
_split_bullets(text) ==
    SelectSeq(StripAll(SplitFrom(text, 1, BulletSeparator(text))), NonEmptyPart)

LongSentence(sentence) == sentence # <<>> /\ Len(sentence) > MinSentenceLength

OrWholeText(sentences, text) == IF sentences # <<>> THEN sentences ELSE <<text>>

\* ACSplitter._split_sentences
_split_sentences(text) ==
    OrWholeText(SelectSeq(StripAll(SplitFrom(text, 1, SentenceSeparator(text))),
                          LongSentence),
                text)

\* re.sub(r'\s+', ' ', ac_text.strip()): every run of whitespace, line breaks
\* included, becomes one space
NormalizeWhitespace(text) == CollapseWhitespace(Strip(text))

\* the three strategies, on the normalized text
SplitNormalized(text) ==
    IF SearchNumbered(text) THEN _split_numbered(text)
    ELSE IF SearchBullet(text) THEN _split_bullets(text)
    ELSE _split_sentences(text)

\* ACSplitter.split
split(ac_text) ==
    IF ac_text = <<>> \/ Strip(ac_text) = <<>> THEN <<>>
    ELSE SplitNormalized(NormalizeWhitespace(ac_text))

----------------------------------------------------------------------------
(* CriteriaParser: AcceptanceCriteriaExtractor *)

\* the class [...] of the bullet patterns of _parse_ac_items and of
\* _normalize_item: the bullet character U+2022, the hyphen and the asterisk
ItemBulletClass == {"bullet", "-", "*"}

\* [class]\s+ at position j: the position after the match, 0 when it does not
\* match
ItemBulletEndAt(text, j) ==
    IF j + 1 <= Len(text) /\ text[j] \in ItemBulletClass /\ text[j + 1] \in Whitespace
    THEN SkipWhitespace(text, j + 1)
    ELSE 0

\* ^\s*[class]\s+ with ^ at position p
ItemBulletEnd(text, p) == ItemBulletEndAt(text, SkipWhitespace(text, p))

\* re.search(r'^\s*[class]\s+', ac_text, re.MULTILINE)
SearchItemBullet(text) == \E p \in LineStarts(text, TRUE) : ItemBulletEnd(text, p) # 0

\* the separator \n\s*[class]\s+ of the bullet branch
ItemBulletSeparator(text) ==
    [i \in 1..Len(text) |-> IF text[i] = "\n" THEN ItemBulletEnd(text, i + 1) ELSE 0]

\* the newlines of the whitespace run that follows position i
NewlinesAfter(text, i) ==
    {k \in (i + 1)..(SkipWhitespace(text, i + 1) - 1) : text[k] = "\n"}

MaxOf(S) == CHOOSE i \in S : \A j \in S : i >= j

\* the separator \n\s*\n of the paragraph branch: \s* is greedy, the match
\* ends at the last newline of the whitespace run
ParagraphSeparator(text) ==
    [i \in 1..Len(text) |->
        IF text[i] = "\n" /\ NewlinesAfter(text, i) # {}
        THEN MaxOf(NewlinesAfter(text, i)) + 1
        ELSE 0]

\* the three branches of _parse_ac_items: the stripped, non-empty parts
RawItems(ac_text) ==
    IF SearchNumbered(ac_text)
    THEN SelectSeq(StripAll(RemoveNumberingAll(SplitFrom(ac_text, 1,
                                                         NumberedSeparator(ac_text)))),
                   NonEmptyPart)
    ELSE IF SearchItemBullet(ac_text)
    THEN SelectSeq(StripAll(SplitFrom(ac_text, 1, ItemBulletSeparator(ac_text))),
                   NonEmptyPart)
    ELSE SelectSeq(StripAll(SplitFrom(ac_text, 1, ParagraphSeparator(ac_text))),
                   NonEmptyPart)

\* re.sub(r'^[class]\s*', '', item)
RemoveLeadingBullet(item) ==
    IF item # <<>> /\ Head(item) \in ItemBulletClass
    THEN SubSeq(item, SkipWhitespace(item, 2), Len(item))
    ELSE item

\* if item and not item[-1] in '.!?': item += '.'
EnsurePunctuation(item) ==
    IF item # <<>> /\ item[Len(item)] \notin SentenceEnd THEN Append(item, ".") ELSE item

\* AcceptanceCriteriaExtractor._normalize_item
_normalize_item(item) ==
    EnsurePunctuation(RemoveLeadingBullet(Strip(CollapseWhitespace(item))))

NormalizeAll(raw_items) ==
    SelectSeq([i \in 1..Len(raw_items) |-> _normalize_item(raw_items[i])], NonEmptyPart)

\* the key of the duplicate detection, compared as the text itself
ItemKey_CaseSensitive(item) == Strip(item)

\* item_key = item.lower().strip()
ItemKey(item) == Strip(LowerText(item))

\* the loop over normalized that fills seen and unique_items
RECURSIVE UniqueLoop(_, _, _, _)
UniqueLoop(normalized, i, seen, unique_items) ==
    IF i > Len(normalized) THEN unique_items
    ELSE IF ItemKey(normalized[i]) # <<>> /\ ItemKey(normalized[i]) \notin seen
    THEN UniqueLoop(normalized, i + 1, seen \cup {ItemKey(normalized[i])},
                    Append(unique_items, normalized[i]))
    ELSE UniqueLoop(normalized, i + 1, seen, unique_items)

\* AcceptanceCriteriaExtractor._parse_ac_items
_parse_ac_items(ac_text) ==
    IF ac_text = <<>> THEN <<>>
    ELSE UniqueLoop(NormalizeAll(RawItems(ac_text)), 1, {}, <<>>)

----------------------------------------------------------------------------
(* CriteriaClassifier: AcceptanceCriteriaClassifier *)

\* A keyword of KEYWORD_PATTERNS with its weight.  The weights of the table
\* are 2.0, 1.5 and 1.0; a weight is kept as the number of halves, so that
\* the scores are integers and compare as the floats of the code do.
Keyword(keyword, halves) == [keyword |-> keyword, weight |-> halves]

\* AcceptanceCriteriaClassifier.KEYWORD_PATTERNS, in the order of the dict
KEYWORD_PATTERNS ==
    <<
     [category |-> "AVAILABILITY_ENTRY_POINTS",
      patterns |-> <<
          Keyword(<<"v", "i", "s", "i", "b", "l", "e">>, 4),
          Keyword(<<"a", "v", "a", "i", "l", "a", "b", "l", "e">>, 4),
          Keyword(<<"d", "i", "s", "p", "l", "a", "y", "e", "d">>, 4),
          Keyword(<<"s", "h", "o", "w", "n">>, 4),
          Keyword(<<"a", "p", "p", "e", "a", "r", "s">>, 3),
          Keyword(<<"m", "e", "n", "u">>, 3),
          Keyword(<<"s", "i", "d", "e", "b", "a", "r">>, 3),
          Keyword(<<"p", "a", "n", "e", "l">>, 3),
          Keyword(<<"b", "u", "t", "t", "o", "n">>, 2),
          Keyword(<<"l", "i", "n", "k">>, 2),
          Keyword(<<"a", "c", "c", "e", "s", "s">>, 2),
          Keyword(<<"e", "n", "t", "r", "y", " ", "p", "o", "i", "n", "t">>, 4)
      >>],
     [category |-> "LOGGING_TRACKING",
      patterns |-> <<
          Keyword(<<"l", "o", "g">>, 4),
          Keyword(<<"r", "e", "c", "o", "r", "d">>, 4),
          Keyword(<<"h", "i", "s", "t", "o", "r", "y">>, 4),
          Keyword(<<"l", "i", "s", "t">>, 3),
          Keyword(<<"t", "r", "a", "c", "k">>, 4),
          Keyword(<<"a", "u", "d", "i", "t">>, 3),
          Keyword(<<"e", "n", "t", "r", "y">>, 3),
          Keyword(<<"i", "t", "e", "m">>, 2),
          Keyword(<<"u", "p", "d", "a", "t", "e", "s">>, 3),
          Keyword(<<"a", "d", "d", "s">>, 2),
          Keyword(<<"a", "p", "p", "e", "n", "d", "s">>, 2)
      >>],
     [category |-> "ORDERING",
      patterns |-> <<
          Keyword(<<"n", "e", "w", "e", "s", "t">>, 4),
          Keyword(<<"o", "l", "d", "e", "s", "t">>, 4),
          Keyword(<<"t", "o", "p">>, 3),
          Keyword(<<"b", "o", "t", "t", "o", "m">>, 3),
          Keyword(<<"f", "i", "r", "s", "t">>, 3),
          Keyword(<<"l", "a", "s", "t">>, 3),
          Keyword(<<"c", "h", "r", "o", "n", "o", "l", "o", "g", "i", "c", "a", "l">>, 4),
          Keyword(<<"o", "r", "d", "e", "r">>, 3),
          Keyword(<<"s", "o", "r", "t", "e", "d">>, 3),
          Keyword(<<"s", "e", "q", "u", "e", "n", "c", "e">>, 2),
          Keyword(<<"a", "s", "c", "e", "n", "d", "i", "n", "g">>, 3),
          Keyword(<<"d", "e", "s", "c", "e", "n", "d", "i", "n", "g">>, 3)
      >>],
     [category |-> "LIMIT_RETENTION",
      patterns |-> <<
          Keyword(<<"l", "i", "m", "i", "t">>, 4),
          Keyword(<<"o", "n", "l", "y">>, 3),
          Keyword(<<"l", "a", "s", "t", " ", "f", "i", "v", "e">>, 4),
          Keyword(<<"l", "a", "s", "t", " ", "5">>, 4),
          Keyword(<<"m", "a", "x">>, 4),
          Keyword(<<"m", "a", "x", "i", "m", "u", "m">>, 4),
          Keyword(<<"r", "e", "m", "o", "v", "e", "d">>, 3),
          Keyword(<<"d", "e", "l", "e", "t", "e", "d">>, 3),
          Keyword(<<"r", "e", "t", "e", "n", "t", "i", "o", "n">>, 4),
          Keyword(<<"k", "e", "e", "p">>, 3),
          Keyword(<<"m", "a", "i", "n", "t", "a", "i", "n">>, 2),
          Keyword(<<"p", "r", "e", "s", "e", "r", "v", "e">>, 2)
      >>],
     [category |-> "RESTRICTIONS_SCOPE",
      patterns |-> <<
          Keyword(<<"n", "o", " ", "m", "a", "n", "u", "a", "l">>, 4),
          Keyword(<<"c", "a", "n", "n", "o", "t">>, 4),
          Keyword(<<"o", "u", "t", " ", "o", "f", " ", "s", "c", "o", "p", "e">>, 4),
          Keyword(<<"n", "o", "t", " ", "a", "l", "l", "o", "w", "e", "d">>, 4),
          Keyword(<<"r", "e", "s", "t", "r", "i", "c", "t", "e", "d">>, 3),
          Keyword(<<"p", "r", "o", "h", "i", "b", "i", "t", "e", "d">>, 3),
          Keyword(<<"d", "i", "s", "a", "b", "l", "e", "d">>, 3),
          Keyword(<<"r", "e", "a", "d", "-", "o", "n", "l", "y">>, 3),
          Keyword(<<"n", "o", "t", " ", "e", "d", "i", "t", "a", "b", "l", "e">>, 3),
          Keyword(<<"n", "o", "t", " ", "m", "o", "d", "i", "f", "i", "a", "b", "l", "e">>, 3)
      >>],
     [category |-> "DYNAMIC_REFRESH",
      patterns |-> <<
          Keyword(<<"u", "p", "d", "a", "t", "e", "s", " ", "a", "u", "t", "o", "m", "a", "t", "i", "c", "a", "l", "l", "y">>, 4),
          Keyword(<<"r", "e", "a", "l", " ", "t", "i", "m", "e">>, 4),
          Keyword(<<"r", "e", "a", "l", "-", "t", "i", "m", "e">>, 4),
          Keyword(<<"r", "e", "f", "r", "e", "s", "h", "e", "s">>, 4),
          Keyword(<<"a", "u", "t", "o", "-", "u", "p", "d", "a", "t", "e">>, 4),
          Keyword(<<"l", "i", "v", "e">>, 3),
          Keyword(<<"d", "y", "n", "a", "m", "i", "c">>, 3),
          Keyword(<<"i", "m", "m", "e", "d", "i", "a", "t", "e", "l", "y">>, 2),
          Keyword(<<"i", "n", "s", "t", "a", "n", "t">>, 2),
          Keyword(<<"w", "i", "t", "h", "o", "u", "t", " ", "r", "e", "f", "r", "e", "s", "h">>, 3)
      >>],
     [category |-> "RESET_CONDITIONS",
      patterns |-> <<
          Keyword(<<"r", "e", "s", "e", "t", "s">>, 4),
          Keyword(<<"r", "e", "s", "e", "t">>, 4),
          Keyword(<<"n", "e", "w", " ", "d", "r", "a", "w", "i", "n", "g">>, 4),
          Keyword(<<"n", "e", "w", " ", "f", "i", "l", "e">>, 3),
          Keyword(<<"l", "o", "a", "d", "e", "d">>, 3),
          Keyword(<<"c", "l", "e", "a", "r">>, 3),
          Keyword(<<"c", "l", "e", "a", "r", "e", "d">>, 3),
          Keyword(<<"e", "m", "p", "t", "y">>, 2),
          Keyword(<<"i", "n", "i", "t", "i", "a", "l", " ", "s", "t", "a", "t", "e">>, 3)
      >>],
     [category |-> "SCROLLING",
      patterns |-> <<
          Keyword(<<"s", "c", "r", "o", "l", "l">>, 4),
          Keyword(<<"s", "c", "r", "o", "l", "l", "a", "b", "l", "e">>, 4),
          Keyword(<<"e", "x", "c", "e", "e", "d", "s", " ", "v", "i", "s", "i", "b", "l", "e", " ", "h", "e", "i", "g", "h", "t">>, 4),
          Keyword(<<"e", "x", "c", "e", "e", "d", "s", " ", "v", "i", "s", "i", "b", "l", "e", " ", "a", "r", "e", "a">>, 3),
          Keyword(<<"o", "v", "e", "r", "f", "l", "o", "w">>, 3),
          Keyword(<<"v", "e", "r", "t", "i", "c", "a", "l", " ", "s", "c", "r", "o", "l", "l">>, 4),
          Keyword(<<"h", "o", "r", "i", "z", "o", "n", "t", "a", "l", " ", "s", "c", "r", "o", "l", "l">>, 3),
          Keyword(<<"s", "c", "r", "o", "l", "l", "b", "a", "r">>, 3)
      >>],
     [category |-> "ACCESSIBILITY",
      patterns |-> <<
          Keyword(<<"5", "0", "8">>, 4),
          Keyword(<<"w", "c", "a", "g">>, 4),
          Keyword(<<"k", "e", "y", "b", "o", "a", "r", "d">>, 4),
          Keyword(<<"f", "o", "c", "u", "s">>, 4),
          Keyword(<<"a", "c", "c", "e", "s", "s", "i", "b", "l", "e">>, 4),
          Keyword(<<"r", "e", "a", "d", "a", "b", "l", "e", " ", "l", "a", "b", "e", "l", "s">>, 4),
          Keyword(<<"a", "r", "i", "a">>, 3),
          Keyword(<<"s", "c", "r", "e", "e", "n", " ", "r", "e", "a", "d", "e", "r">>, 3),
          Keyword(<<"t", "a", "b", " ", "n", "a", "v", "i", "g", "a", "t", "i", "o", "n">>, 3),
          Keyword(<<"k", "e", "y", "b", "o", "a", "r", "d", " ", "n", "a", "v", "i", "g", "a", "t", "i", "o", "n">>, 4)
      >>]
    >>

\* len(re.findall(r'\b' + re.escape(keyword) + r'\b', ac_lower)), counted
\* from index i: the matches are taken left to right and do not overlap
RECURSIVE CountWholeWord(_, _, _)
CountWholeWord(ac_lower, keyword, i) ==
    LET at == {k \in i..(Len(ac_lower) - Len(keyword) + 1) :
                  /\ SubSeq(ac_lower, k, k + Len(keyword) - 1) = keyword
                  /\ WordBoundary(ac_lower, k)
                  /\ WordBoundary(ac_lower, k + Len(keyword))}
    IN IF at = {} THEN 0
       ELSE 1 + CountWholeWord(ac_lower, keyword,
                               (CHOOSE k \in at : \A other \in at : k <= other)
                                   + Len(keyword))

\* the inner loop of classify: score += count * weight, from pattern i on
RECURSIVE CategoryScore(_, _, _)
CategoryScore(ac_lower, patterns, i) ==
    IF i > Len(patterns) THEN 0
    ELSE CountWholeWord(ac_lower, patterns[i].keyword, 1) * patterns[i].weight
             + CategoryScore(ac_lower, patterns, i + 1)

\* the scores dict of classify, in the order of its keys
CategoryScores(ac_lower) ==
    [i \in 1..Len(KEYWORD_PATTERNS) |->
        CategoryScore(ac_lower, KEYWORD_PATTERNS[i].patterns, 1)]

\* the loop over scores.items(): the first category whose score is the maximum
FirstWithScore_LastWins(scores, max_score) ==
    KEYWORD_PATTERNS[MaxOf({i \in 1..Len(scores) : scores[i] = max_score})].category

FirstWithScore(scores, max_score) ==
    KEYWORD_PATTERNS[CHOOSE i \in 1..Len(scores) :
                        /\ scores[i] = max_score
                        /\ \A j \in 1..(i - 1) : scores[j] # max_score].category

\* classify, after the scores are known
CategoryOfScores(scores, max_score) ==
    IF max_score > 0 THEN FirstWithScore(scores, max_score) ELSE "OTHER_GENERAL"

\* AcceptanceCriteriaClassifier.classify
ClassifyScores(scores) ==
    CategoryOfScores(scores, MaxOf({scores[i] : i \in 1..Len(scores)}))

classify(ac_text) == ClassifyScores(CategoryScores(LowerText(ac_text)))

\* ---- inputs of the splitter
MaxItems == 3

ItemSubjects ==
    <<<<"F", "i", "r", "s", "t">>, <<"S", "e", "c", "o", "n", "d">>, <<"T", "h", "i", "r", "d">>,
      <<"F", "o", "u", "r", "t", "h">>, <<"F", "i", "f", "t", "h">>>>

\* the text of the i-th item: "First item" or "First item."
ItemText(i, period) ==
    ItemSubjects[i] \o <<" ", "i", "t", "e", "m">> \o (IF period THEN <<".">> ELSE <<>>)

MarkerStyles == {"dot", "paren", "dash", "star", "bullet"}

Marker(style, i) ==
    IF style = "dot" THEN Digits(i) \o <<".">>
    ELSE IF style = "paren" THEN Digits(i) \o <<")">>
    ELSE IF style = "dash" THEN <<"-">>
    ELSE IF style = "star" THEN <<"*">>
    ELSE <<"bullet">>

\* k items, each introduced by its marker, on separate lines or on one line
MarkedText(k, style, between, indent, period) ==
    Join([i \in 1..k |-> indent \o Marker(style, i) \o <<" ">> \o ItemText(i, period)],
         between)

SplitInput(kind, text, k, style, between, period) ==
    [kind |-> kind, text |-> text, k |-> k, style |-> style, between |-> between,
     period |-> period]

SplitInputs ==
    {SplitInput("marked", MarkedText(k, st, b, ind, p), k, st, b, p) :
        k \in 1..MaxItems, st \in MarkerStyles, b \in {<<"\n">>, <<" ">>},
        ind \in {<<>>, <<" ", " ">>}, p \in BOOLEAN}
    \cup
    {SplitInput("plain", t, 0, "none", <<>>, FALSE) :
        t \in {<<>>, <<" ", "\n">>, ItemText(1, TRUE),
               ItemText(1, TRUE) \o <<" ">> \o ItemText(2, TRUE),
               ItemText(1, FALSE) \o <<"\n", "\n">> \o ItemText(2, FALSE),
               <<"O", "k", ".", " ", "N", "o", "!">>}}

NoSplitInput == SplitInput("none", <<>>, 0, "none", <<>>, FALSE)
NoSplitOutput == [state |-> "none", result |-> <<>>]

\* ---- inputs of the criteria parser
MaxParsed == 3

\* statements that differ in case or in the final punctuation only, a
\* statement with a run of whitespace inside, and a lone bullet character
StatementPool ==
    {<<"S", "a", "v", "e">>, <<"s", "a", "v", "e">>, <<"S", "A", "V", "E", ".">>,
     <<"G", "o", " ", " ", "o", "n", "!">>, <<"*">>, <<"O", "k", "?">>}

ListStyles == MarkerStyles \cup {"paragraph"}

\* the statements as a numbered list, a bullet list or paragraphs
ListText(statements, style) ==
    IF style = "paragraph" THEN Join(statements, <<"\n", "\n">>)
    ELSE Join([i \in 1..Len(statements) |-> Marker(style, i) \o <<" ">> \o statements[i]],
              <<"\n">>)

ParseInput(statements, style) ==
    [statements |-> statements, style |-> style, text |-> ListText(statements, style)]

ParseInputs ==
    {ParseInput(ss, st) : ss \in SeqsUpTo(StatementPool, MaxParsed), st \in ListStyles}

NoParseInput == [statements |-> <<>>, style |-> "none", text |-> <<>>]
NoParseOutput == [state |-> "none", normalized |-> <<>>, result |-> <<>>]

\* ---- inputs of the classifier
MaxPhrases == 3

\* words of the keyword table whose categories tie or which are a part of
\* another keyword, a word in upper case, a word that only contains a keyword,
\* and a word of no category
PhrasePool ==
    {<<"V", "i", "s", "i", "b", "l", "e">>, <<"l", "o", "g">>,
     <<"m", "e", "n", "u">>, <<"l", "i", "s", "t">>, <<"t", "o", "p">>,
     <<"o", "n", "l", "y">>, <<"l", "a", "s", "t">>, <<"f", "i", "v", "e">>,
     <<"s", "c", "r", "o", "l", "l", "b", "a", "r", "s">>, <<"t", "h", "e">>}

ClassifyInput(phrases) == [phrases |-> phrases, text |-> Join(phrases, <<" ">>)]
ClassifyInputs == {ClassifyInput(ps) : ps \in SeqsUpTo(PhrasePool, MaxPhrases)}
NoClassifyInput == ClassifyInput(<<>>)
NoClassifyOutput == [state |-> "none", scores |-> <<>>, result |-> "none"]

IdleSplit ==
    /\ sp_in = NoSplitInput
    /\ sp_out = NoSplitOutput

IdleParseItems ==
    /\ pa_in = NoParseInput
    /\ pa_out = NoParseOutput

IdleClassify ==
    /\ cl_in = NoClassifyInput
    /\ cl_out = NoClassifyOutput

IdleParse == IdleSplit /\ IdleParseItems /\ IdleClassify

----------------------------------------------------------------------------
(* Steps document: StepsXMLGenerator.generate, and the document read back *)

\* The document is a sequence of tokens: a piece of markup the serializer
\* writes is one token, a character of a text or of an attribute value is one
\* token.  Characters without a TLA+ notation are named: "vertical-tab"
\* (U+000B), "nul" (U+0000).
Quote == "\""

\* str(n)
Str(n) == IF n < 0 THEN <<"-">> \o Digits(0 - n) ELSE Digits(n)

\* ElementTree._escape_cdata: & < > are replaced, nothing else
EscapeChar(c) ==
    IF c = "&" THEN <<"&", "a", "m", "p", ";">>
    ELSE IF c = "<" THEN <<"&", "l", "t", ";">>
    ELSE IF c = ">" THEN <<"&", "g", "t", ";">>
    ELSE <<c>>

_escape_cdata(text) == Join([i \in 1..Len(text) |-> EscapeChar(text[i])], <<>>)

\* an element parameterizedString with its text; the serializer writes an
\* element whose text is empty in the short form
ParameterizedString(text) ==
    <<"<parameterizedString", " isformatted=", Quote, "true", Quote>>
    \o (IF text # <<>>
        THEN <<">">> \o _escape_cdata(text) \o <<"</parameterizedString>">>
        ELSE <<" />">>)

\* the element of one step
StepElement(step) ==
    <<"<step", " id=", Quote>> \o Str(step.step_number)
    \o <<Quote, " type=", Quote, "ActionStep", Quote, ">">>
    \o ParameterizedString(step.action)
    \o ParameterizedString(step.expected_result)
    \o <<"</step>">>

\* StepsXMLGenerator.generate
generate(steps) ==
    IF steps = <<>> THEN [raised |-> TRUE, xml |-> <<>>]
    ELSE [raised |-> FALSE,
          xml |-> <<"<steps", " id=", Quote, "0", Quote, " last=", Quote>>
                  \o Str(Len(steps)) \o <<Quote, ">">>
                  \o Join([i \in 1..Len(steps) |-> StepElement(steps[i])], <<>>)
                  \o <<"</steps>">>]

\* ---- xml.etree.ElementTree.fromstring and the reading of the tree
\* characters that no XML 1.0 document may hold
ForbiddenChars == {"vertical-tab", "nul"}

\* the parser reads every line end, \r\n or \r, as \n
NormalizeLineEnds(doc) ==
    LET tagged == [i \in 1..Len(doc) |-> <<doc[i], i > 1 /\ doc[i - 1] = "\r">>]
        Kept(p) == ~(p[1] = "\n" /\ p[2])
        kept == SelectSeq(tagged, Kept)
    IN [i \in 1..Len(kept) |-> IF kept[i][1] = "\r" THEN "\n" ELSE kept[i][1]]

NotWellFormed == [ok |-> FALSE, value |-> <<>>, next |-> 0]
Parsed(value, next) == [ok |-> TRUE, value |-> value, next |-> next]

Follows(doc, i, tokens) ==
    i + Len(tokens) - 1 <= Len(doc) /\ SubSeq(doc, i, i + Len(tokens) - 1) = tokens

MarkupTokens ==
    {"<steps", "<step", "<parameterizedString", " id=", " last=", " type=",
     " isformatted=", " />", "</parameterizedString>", "</step>", "</steps>"}

\* the character data of an element, up to its end tag: references are
\* replaced, a bare & or < is not well-formed
RECURSIVE CharData(_, _, _, _)
CharData(doc, i, end_tag, text) ==
    IF i > Len(doc) THEN NotWellFormed
    ELSE IF doc[i] = end_tag THEN Parsed(Some(text), i + 1)
    ELSE IF Follows(doc, i, <<"&", "a", "m", "p", ";">>)
    THEN CharData(doc, i + 5, end_tag, Append(text, "&"))
    ELSE IF Follows(doc, i, <<"&", "l", "t", ";">>)
    THEN CharData(doc, i + 4, end_tag, Append(text, "<"))
    ELSE IF Follows(doc, i, <<"&", "g", "t", ";">>)
    THEN CharData(doc, i + 4, end_tag, Append(text, ">"))
    ELSE IF doc[i] \in {"&", "<"} \cup MarkupTokens THEN NotWellFormed
    ELSE CharData(doc, i + 1, end_tag, Append(text, doc[i]))

\* the value of an attribute, up to the closing quote
RECURSIVE AttributeValue(_, _, _)
AttributeValue(doc, i, value) ==
    IF i > Len(doc) \/ doc[i] \in {"&", "<"} \cup MarkupTokens THEN NotWellFormed
    ELSE IF doc[i] = Quote THEN Parsed(value, i + 1)
    ELSE AttributeValue(doc, i + 1, Append(value, doc[i]))

\* an element parameterizedString at position i; the text of an element in
\* the short form is None
ParameterizedStringAt(doc, i) ==
    IF ~Follows(doc, i, <<"<parameterizedString", " isformatted=", Quote, "true", Quote>>)
    THEN NotWellFormed
    ELSE IF Follows(doc, i + 5, <<" />">>) THEN Parsed(None, i + 6)
    ELSE IF Follows(doc, i + 5, <<">">>)
    THEN CharData(doc, i + 6, "</parameterizedString>", <<>>)
    ELSE NotWellFormed

StepRecord(id, action, expected) == [id |-> id, action |-> action, expected |-> expected]

AfterExpected(doc, id, action, expected) ==
    IF expected.ok /\ Follows(doc, expected.next, <<"</step>">>)
    THEN Parsed(StepRecord(id.value, action.value, expected.value), expected.next + 1)
    ELSE NotWellFormed

AfterAction(doc, id, action) ==
    IF action.ok THEN AfterExpected(doc, id, action, ParameterizedStringAt(doc, action.next))
    ELSE NotWellFormed

AfterId(doc, id) ==
    IF id.ok /\ Follows(doc, id.next, <<" type=", Quote, "ActionStep", Quote, ">">>)
    THEN AfterAction(doc, id, ParameterizedStringAt(doc, id.next + 5))
    ELSE NotWellFormed

\* an element step at position i: step.get("id") and the texts of its two
\* parameterizedString children
StepAt(doc, i) ==
    IF Follows(doc, i, <<"<step", " id=", Quote>>)
    THEN AfterId(doc, AttributeValue(doc, i + 3, <<>>))
    ELSE NotWellFormed

RECURSIVE StepsFrom(_, _, _)
AfterStep(doc, step, records) ==
    IF step.ok THEN StepsFrom(doc, step.next, Append(records, step.value))
    ELSE NotWellFormed

\* root.findall("step"), up to the end tag of the root, which ends the document
StepsFrom(doc, i, records) ==
    IF Follows(doc, i, <<"</steps>">>)
    THEN (IF i = Len(doc) THEN Parsed(records, i + 1) ELSE NotWellFormed)
    ELSE AfterStep(doc, StepAt(doc, i), records)

Document(last, steps) == [ok |-> TRUE, last |-> last, steps |-> steps]
NoDocument == [ok |-> FALSE, last |-> <<>>, steps |-> <<>>]

AfterSteps(last, steps) ==
    IF steps.ok THEN Document(last.value, steps.value) ELSE NoDocument

AfterLast(doc, last) ==
    IF last.ok /\ Follows(doc, last.next, <<">">>)
    THEN AfterSteps(last, StepsFrom(doc, last.next + 1, <<>>))
    ELSE NoDocument

RootAt(doc) ==
    IF Follows(doc, 1, <<"<steps", " id=", Quote, "0", Quote, " last=", Quote>>)
    THEN AfterLast(doc, AttributeValue(doc, 8, <<>>))
    ELSE NoDocument

\* fromstring(xml), then root.get("last") and the step records
fromstring(xml) ==
    IF \E i \in 1..Len(xml) : xml[i] \in ForbiddenChars THEN NoDocument
    ELSE RootAt(NormalizeLineEnds(xml))

\* ---- inputs of the encoder
MaxXmlSteps == 2

\* step texts: plain, with the characters the serializer escapes, with line
\* ends, with a control character, blank and empty
XmlTexts ==
    {<<"O", "p", "e", "n">>, <<"a", "<", "b", "&", "g", "t", ";", ">">>,
     <<"a", "\n", "b">>, <<"a", "\r", "\n", "b">>, <<"a", "\r">>,
     <<"a", "vertical-tab">>, <<" ">>, <<>>}

XmlSteps ==
    {TestStep(a, x, n) : a \in XmlTexts, x \in {<<"O", "k">>, <<>>}, n \in {1, 12}}

NoXmlOutput == [state |-> "none", raised |-> FALSE, xml |-> <<>>, document |-> NoDocument]

IdleXml ==
    /\ xm_in = <<>>
    /\ xm_out = NoXmlOutput

----------------------------------------------------------------------------
(* The work-item source and the candidates of a run *)

\* A story is what the source returns: the number of candidates its criteria
\* generate (0: no criteria) and the revision of the text its criteria give
\* the candidates' titles (t) and steps (s).  Editing the criteria changes them.
Stories == [n : 0..MaxCands, t : Versions, s : Versions]

\* the title "{internal_id}: ..." of a candidate and its steps document
CandTitle(iid, c) == iid \o <<":", " ">> \o <<"title-text", c.t>>
CandSteps(c) == <<"steps-document", c.s>>

GenTags(story_id) == {<<"story", story_id>>, <<"generated-by", "ado-testgen">>}

Candidates(st) ==
    [k \in 1..st.n |->
        [internal_id |-> generate_internal_id(StoryId, k - 1),
         title |-> CandTitle(generate_internal_id(StoryId, k - 1), st),
         steps_xml |-> CandSteps(st),
         tags |-> GenTags(StoryId)]]

----------------------------------------------------------------------------
(* Work-item sink: WorkItemsAPI *)

find_test_cases_by_tags(its, tags) ==
    {i \in 1..Len(its) : tags \subseteq its[i].tags}

find_test_cases_by_title_prefix(its, prefix) ==
    {i \in 1..Len(its) : StartsWith(its[i].title, prefix)}

create_test_case(its, title, steps_xml, tags) ==
    Append(its, [id |-> Len(its) + 1, title |-> title, steps |-> steps_xml, tags |-> tags])

update_test_case(its, work_item_id, title, steps_xml, tags) ==
    [its EXCEPT ![work_item_id] =
        [id |-> work_item_id, title |-> title, steps |-> steps_xml, tags |-> tags]]

\* internal_id = title.split(":")[0].strip() of every found item whose title
\* holds a ":"; a later item (ORDER BY id) overwrites an earlier one's entry
KeyOf_WholeTitle(title) == Strip(title)

KeyOf(title) == Strip(SplitHead(title, ":"))

ExistingMap(its, found) ==
    LET keyed == {i \in found : IndexOf(its[i].title, ":", 1) # 0}
        keys == {KeyOf(its[i].title) : i \in keyed}
        last(k) == CHOOSE i \in keyed :
                      /\ KeyOf(its[i].title) = k
                      /\ \A j \in keyed : KeyOf(its[j].title) = k => j <= i
    IN [k \in keys |-> its[last(k)]]

\* TestCaseOrchestrator._find_existing_test_cases: tags first, title prefix
\* when the tag search gave nothing.  HybridPipeline's has the tag search only.
find_existing_test_cases(its, story_id, m) ==
    LET byTag == ExistingMap(its, find_test_cases_by_tags(its, GenTags(story_id)))
    IN IF m = "rules" /\ DOMAIN byTag = {}
       THEN ExistingMap(its,
                find_test_cases_by_title_prefix(its, Digits(story_id) \o <<"-">>))
       ELSE byTag

NoExisting == [k \in {} |-> 0]

----------------------------------------------------------------------------
(* Suite membership sink: TestPlansAPI.add_test_cases_to_suite *)

\* getOk: the listing of the suite's members succeeds; failing: the ids whose
\* POST fails.  A failed POST of an id that is a member is the sink's
\* "already exists" answer, counted as added; any other failure is an error.
RECURSIVE add_test_cases_to_suite(_, _, _, _)
add_test_cases_to_suite(members, ids, getOk, failing) ==
    LET existing_ids == IF getOk THEN members ELSE {}
    IN IF ids = <<>> THEN [members |-> members, added |-> 0, errors |-> <<>>]
       ELSE LET tc_id == Head(ids)
                rest == add_test_cases_to_suite(
                            IF tc_id \in existing_ids \/ tc_id \in failing
                            THEN members ELSE members \cup {tc_id},
                            Tail(ids), getOk, failing)
            IN IF tc_id \in existing_ids \/ tc_id \notin failing \/ tc_id \in members
               THEN [rest EXCEPT !.added = @ + 1]
               ELSE [rest EXCEPT !.errors = <<<<"suite-add", tc_id>>>> \o @]

\* TestCaseOrchestrator._add_to_test_suite
SeqFilterNotIn(s, S) ==
    LET F[i \in 0..Len(s)] ==
            IF i = 0 THEN <<>>
            ELSE IF s[i] \in S THEN F[i - 1] ELSE Append(F[i - 1], s[i])
    IN F[Len(s)]

add_to_test_suite(members, test_case_ids, listOk, getOk, failing) ==
    IF ~listOk
    THEN [members |-> members, errors |-> <<<<"suite-list", 0>>>>]
    ELSE LET new_ids == SeqFilterNotIn(test_case_ids, members)
         IN IF new_ids = <<>>
            THEN [members |-> members, errors |-> <<>>]
            ELSE LET r == add_test_cases_to_suite(members, new_ids, getOk, failing)
                 IN [members |-> r.members, errors |-> r.errors]

----------------------------------------------------------------------------
(* A pipeline run *)

NoStory == [n |-> 0, t |-> "none", s |-> "none"]

\* the values of a run's variables between runs
RunReset ==
    /\ mode' = "rules"
    /\ cands' = <<>>
    /\ existing' = NoExisting
    /\ idx' = 1
    /\ created_ids' = <<>>
    /\ updated_ids' = <<>>
    /\ skipped_ids' = <<>>
    /\ handled' = <<>>
    /\ errors' = <<>>
    /\ startItems' = <<>>
    /\ lookupFailed' = FALSE
    /\ rerun' = FALSE

InitPub ==
    /\ items = <<>>
    /\ suite = {}
    /\ story \in {st \in Stories : st.n > 0 /\ st.t = "v1" /\ st.s = "v1"}
    /\ pc = "idle"
    /\ mode = "rules"
    /\ cands = <<>>
    /\ existing = NoExisting
    /\ idx = 1
    /\ created_ids = <<>>
    /\ updated_ids = <<>>
    /\ skipped_ids = <<>>
    /\ handled = <<>>
    /\ errors = <<>>
    /\ runs = 0
    /\ edits = 0
    /\ faults = 0
    /\ startItems = <<>>
    /\ lookupFailed = FALSE
    /\ everLookupFailed = FALSE
    /\ rerun = FALSE
    /\ cleanStory = NoStory

\* the story is edited between runs (criteria added, removed or reworded, or
\* the story made unavailable)
EditStory ==
    /\ UNCHANGED <<area, genVars, titleVars, hybVars, parseVars, xmlVars>>
    /\ pc = "idle"
    /\ edits < MaxEdits
    /\ edits' = edits + 1
    /\ story' \in Stories \ {story}
    /\ UNCHANGED <<items, suite, pc, mode, cands, existing, idx, created_ids,
                   updated_ids, skipped_ids, handled, errors, runs, faults, startItems,
                   lookupFailed, everLookupFailed, rerun, cleanStory>>

\* the outcomes a call to a collaborator may have: it may fail while faults
\* are left
Outcomes == IF faults < MaxFaults THEN {TRUE, FALSE} ELSE {TRUE}

\* a story without criteria ends the run as an empty success
Fetched_EmptySuccess(fetchOk, st) ==
    IF ~fetchOk
    THEN [errors |-> <<<<"fatal", 0>>>>, cands |-> <<>>, pc |-> "done"]
    ELSE IF st.n = 0
    THEN [errors |-> <<>>, cands |-> <<>>, pc |-> "done"]
    ELSE [errors |-> <<>>, cands |-> Candidates(st), pc |-> "find"]

\* the first steps of a run: what the run holds after the fetch of the story
\* and the extraction of its criteria, and where it goes on
Fetched(fetchOk, st) ==
    IF ~fetchOk
    THEN [errors |-> <<<<"fatal", 0>>>>, cands |-> <<>>, pc |-> "done"]
    ELSE IF st.n = 0
    THEN [errors |-> <<<<"no-acceptance-criteria", 0>>>>, cands |-> <<>>, pc |-> "done"]
    ELSE [errors |-> <<>>, cands |-> Candidates(st), pc |-> "find"]

\* generate_and_publish (m = "rules") / run_hybrid_pipeline (m = "hybrid") up
\* to the generation of the candidates: a story that cannot be fetched, or has
\* no criteria, ends the run with one error
StartRun(m) ==
    /\ UNCHANGED <<area, genVars, titleVars, hybVars, parseVars, xmlVars>>
    /\ pc = "idle"
    /\ runs < MaxRuns
    /\ runs' = runs + 1
    /\ mode' = m
    /\ existing' = NoExisting
    /\ idx' = 1
    /\ created_ids' = <<>>
    /\ updated_ids' = <<>>
    /\ skipped_ids' = <<>>
    /\ handled' = <<>>
    /\ startItems' = items
    /\ lookupFailed' = FALSE
    /\ rerun' = (story = cleanStory)
    /\ cleanStory' = NoStory
    /\ \E fetchOk \in Outcomes :
        /\ faults' = IF fetchOk THEN faults ELSE faults + 1
        /\ errors' = Fetched(fetchOk, story).errors
        /\ cands' = Fetched(fetchOk, story).cands
        /\ pc' = Fetched(fetchOk, story).pc
    /\ UNCHANGED <<items, suite, story, edits, everLookupFailed>>

\* step 4: the lookup of the existing items; when it fails the run goes on
\* with an empty map and a warning in the error list
FindExisting ==
    /\ UNCHANGED <<area, genVars, titleVars, hybVars, parseVars, xmlVars>>
    /\ pc = "find"
    /\ \E ok \in Outcomes :
        /\ existing' = IF ok THEN find_existing_test_cases(items, StoryId, mode)
                       ELSE NoExisting
        /\ errors' = IF ok THEN errors ELSE Append(errors, <<"lookup-warning", 0>>)
        /\ lookupFailed' = ~ok
        /\ everLookupFailed' = (everLookupFailed \/ ~ok)
        /\ faults' = IF ok THEN faults ELSE faults + 1
    /\ pc' = "publish"
    /\ UNCHANGED <<items, suite, story, mode, cands, idx, created_ids, updated_ids,
                   skipped_ids, handled, runs, edits, startItems, rerun, cleanStory>>

NeedsUpdate_TitleVsId(existing_item, tc) ==
    existing_item.steps # tc.steps_xml \/ existing_item.title # tc.internal_id

NeedsUpdate(existing_item, tc) ==
    existing_item.steps # tc.steps_xml \/ existing_item.title # tc.title

\* what one iteration of the loop of _publish_test_cases does with candidate
\* tc: "update", "skip" or "create"
Decision(ex, tc) ==
    IF tc.internal_id \in DOMAIN ex
    THEN IF NeedsUpdate(ex[tc.internal_id], tc) THEN "update" ELSE "skip"
    ELSE "create"

\* the exception of a candidate is dropped
ErrorRecorded_Dropped(errs, i) == errs

\* the except clause of the loop body: the error of candidate i is appended
\* to the error list
ErrorRecorded(errs, i) == Append(errs, <<"publish", i>>)

\* one iteration of the loop of _publish_test_cases; ok: the sink call succeeds
PublishOne ==
    /\ UNCHANGED <<area, genVars, titleVars, hybVars, parseVars, xmlVars>>
    /\ pc = "publish"
    /\ idx <= Len(cands)
    /\ LET tc == cands[idx]
           d == Decision(existing, tc)
       IN \E ok \in (IF d = "skip" THEN {TRUE} ELSE Outcomes) :
           /\ faults' = IF ok THEN faults ELSE faults + 1
           /\ IF ~ok
              THEN /\ errors' = ErrorRecorded(errors, idx)
                   /\ handled' = Append(handled, 0)
                   /\ UNCHANGED <<items, created_ids, updated_ids, skipped_ids>>
              ELSE IF d = "update"
              THEN /\ items' = update_test_case(items, existing[tc.internal_id].id,
                                                tc.title, tc.steps_xml, tc.tags)
                   /\ updated_ids' = Append(updated_ids, existing[tc.internal_id].id)
                   /\ handled' = Append(handled, existing[tc.internal_id].id)
                   /\ UNCHANGED <<created_ids, skipped_ids, errors>>
              ELSE IF d = "skip"
              THEN /\ skipped_ids' = Append(skipped_ids,
                          IF mode = "rules" THEN tc.internal_id
                          ELSE existing[tc.internal_id].id)
                   /\ handled' = Append(handled, existing[tc.internal_id].id)
                   /\ UNCHANGED <<items, created_ids, updated_ids, errors>>
              ELSE /\ items' = create_test_case(items, tc.title, tc.steps_xml, tc.tags)
                   /\ created_ids' = Append(created_ids, Len(items) + 1)
                   /\ handled' = Append(handled, Len(items) + 1)
                   /\ UNCHANGED <<updated_ids, skipped_ids, errors>>
    /\ idx' = idx + 1
    /\ pc' = IF idx = Len(cands) THEN "suite" ELSE "publish"
    /\ UNCHANGED <<suite, story, mode, cands, existing, runs, edits, startItems,
                   lookupFailed, everLookupFailed, rerun, cleanStory>>

SeqRange(s) == {s[i] : i \in 1..Len(s)}

\* the ids a run asks suite membership for: the rules path asks for the created
\* and updated items, the hybrid path for the skipped ones as well
SuiteRequest(m, created, updated, skipped) ==
    IF m = "rules" THEN created \o updated ELSE created \o updated \o skipped

\* step 6: the request for suite membership
AddToSuite ==
    /\ UNCHANGED <<area, genVars, titleVars, hybVars, parseVars, xmlVars>>
    /\ pc = "suite"
    /\ LET ids == SuiteRequest(mode, created_ids, updated_ids, skipped_ids)
       IN IF ids = <<>>
          THEN UNCHANGED <<suite, errors, faults>>
          ELSE \E listOk \in Outcomes, getOk \in Outcomes,
                  failing \in {F \in SUBSET SeqRange(ids) : F # {} => FALSE \in Outcomes} :
                 LET r == IF mode = "rules"
                          THEN add_to_test_suite(suite, ids, listOk, getOk, failing)
                          ELSE add_test_cases_to_suite(suite, ids, getOk, failing)
                 IN /\ suite' = r.members
                    /\ errors' = errors \o r.errors
                    /\ faults' = IF listOk /\ getOk /\ failing = {}
                                 THEN faults ELSE faults + 1
    /\ pc' = "done"
    /\ UNCHANGED <<items, story, mode, cands, existing, idx, created_ids, updated_ids,
                   skipped_ids, handled, runs, edits, startItems, lookupFailed,
                   everLookupFailed, rerun, cleanStory>>

\* the run returns its summary
Return ==
    /\ UNCHANGED <<area, genVars, titleVars, hybVars, parseVars, xmlVars>>
    /\ pc = "done"
    /\ pc' = "idle"
    /\ cleanStory' = IF errors = <<>> THEN story ELSE NoStory
    /\ RunReset
    /\ UNCHANGED <<items, suite, story, runs, edits, faults, everLookupFailed>>

\* the process stops part-way through a run; what it published stays
Crash ==
    /\ UNCHANGED <<area, genVars, titleVars, hybVars, parseVars, xmlVars>>
    /\ pc \in {"find", "publish", "suite"}
    /\ pc' = "idle"
    /\ RunReset
    /\ UNCHANGED <<items, suite, story, runs, edits, faults, everLookupFailed,
                   cleanStory>>

NextPub ==
    \/ EditStory
    \/ \E m \in {"rules", "hybrid"} : StartRun(m)
    \/ FindExisting
    \/ PublishOne
    \/ AddToSuite
    \/ Return
    \/ Crash

Init ==
    /\ InitPub
    /\ area = "publish"
    /\ IdleGen
    /\ IdleTitle
    /\ IdleHyb
    /\ IdleParse
    /\ IdleXml

Spec == Init /\ [][NextPub]_vars

----------------------------------------------------------------------------
(* Calls of the synthesizer, the gate and the close-step operations *)

IdlePub ==
    /\ items = <<>>
    /\ suite = {}
    /\ story = NoStory
    /\ pc = "idle"
    /\ mode = "rules"
    /\ cands = <<>>
    /\ existing = NoExisting
    /\ idx = 1
    /\ created_ids = <<>>
    /\ updated_ids = <<>>
    /\ skipped_ids = <<>>
    /\ handled = <<>>
    /\ errors = <<>>
    /\ runs = 0
    /\ edits = 0
    /\ faults = 0
    /\ startItems = <<>>
    /\ lookupFailed = FALSE
    /\ everLookupFailed = FALSE
    /\ rerun = FALSE
    /\ cleanStory = NoStory

InitSynth ==
    /\ area = "synth"
    /\ sy_in \in SynthInputs
    /\ sy_out = [state |-> "pending", cases |-> <<>>]
    /\ gt_in = NoGateInput
    /\ gt_out = NoGateOutput
    /\ st_steps = <<>>
    /\ st_hist = <<>>

InitGate ==
    /\ area = "gate"
    /\ sy_in = NoSynthInput
    /\ sy_out = NoSynthOutput
    /\ gt_in \in GateInputs
    /\ gt_out = [state |-> "pending", tc |-> NoTestCase]
    /\ st_steps = <<>>
    /\ st_hist = <<>>

InitSteps ==
    /\ area = "steps"
    /\ sy_in = NoSynthInput
    /\ sy_out = NoSynthOutput
    /\ gt_in = NoGateInput
    /\ gt_out = NoGateOutput
    /\ st_steps \in StepLists
    /\ st_hist = <<>>

InitGen ==
    /\ IdlePub
    /\ IdleTitle
    /\ IdleHyb
    /\ IdleParse
    /\ IdleXml
    /\ (InitSynth \/ InitGate \/ InitSteps)

\* the rule path generates the test cases of a story
GenerateAll ==
    /\ area = "synth"
    /\ sy_out.state = "pending"
    /\ LET result == generate_all_test_cases(sy_in.story, sy_in.template,
                                             sy_in.max_tests_per_ac, sy_in.criteria)
       IN sy_out' = [state |-> IF result.raised THEN "raised" ELSE "returned",
                     cases |-> result.cases]
    /\ UNCHANGED <<pubVars, area, titleVars, hybVars, parseVars, xmlVars, sy_in, gt_in, gt_out, st_steps, st_hist>>

\* the gate is given a draft
Canonicalize ==
    /\ area = "gate"
    /\ gt_out.state = "pending"
    /\ \E first \in PunctuationOrders(gt_in.draft.short_descriptor) :
       LET result == validate_and_canonicalize(
                         gt_in.draft, gt_in.story_id, gt_in.internal_id, gt_in.feature,
                         gt_in.module, gt_in.category, gt_in.subcategory, first)
       IN gt_out' = [state |-> IF result.raised THEN "raised"
                                ELSE IF result.accepted THEN "accepted" ELSE "rejected",
                     tc |-> result.tc]
    /\ UNCHANGED <<pubVars, area, titleVars, hybVars, parseVars, xmlVars, sy_in, sy_out, gt_in, st_steps, st_hist>>

\* the synthesizer's close-step operation is applied to the step list
AddCloseStep ==
    /\ area = "steps"
    /\ Len(st_hist) < MaxApply
    /\ st_steps' = add_close_application_step(st_steps)
    /\ st_hist' = Append(st_hist, [op |-> "add_close_application_step",
                                   before |-> st_steps, after |-> st_steps'])
    /\ UNCHANGED <<pubVars, area, titleVars, hybVars, parseVars, xmlVars, sy_in, sy_out, gt_in, gt_out>>

\* the gate's exit-step operation is applied to the step list
AppendExitStep ==
    /\ area = "steps"
    /\ Len(st_hist) < MaxApply
    /\ st_steps' = append_exit_step(st_steps)
    /\ st_hist' = Append(st_hist, [op |-> "append_exit_step",
                                   before |-> st_steps, after |-> st_steps'])
    /\ UNCHANGED <<pubVars, area, titleVars, hybVars, parseVars, xmlVars, sy_in, sy_out, gt_in, gt_out>>

NextGen ==
    \/ GenerateAll
    \/ Canonicalize
    \/ AddCloseStep
    \/ AppendExitStep

SpecGen == InitGen /\ [][NextGen]_vars

----------------------------------------------------------------------------
(* Calls of the title builder and of the descriptor checks *)

InitTitle ==
    /\ IdlePub
    /\ IdleGen
    /\ IdleHyb
    /\ IdleParse
    /\ IdleXml
    /\ area = "title"
    /\ tb_in \in TitleInputs
    /\ tb_out = [state |-> "pending", raised |-> "none", title |-> <<>>]
    /\ tb_check = [state |-> "pending", sanitized |-> <<>>, gate |-> FALSE,
                   builder |-> FALSE]

\* TitleBuilder.build is called
Build ==
    /\ area = "title"
    /\ tb_out.state = "pending"
    /\ LET result == build(tb_in.internal_id, tb_in.feature, tb_in.module, tb_in.category,
                           tb_in.subcategory, tb_in.short_descriptor)
       IN tb_out' = [state |-> IF result.raised = "ok" THEN "returned" ELSE "raised",
                     raised |-> result.raised, title |-> result.title]
    /\ UNCHANGED <<pubVars, area, genVars, hybVars, parseVars, xmlVars, tb_in, tb_check>>

\* the descriptor is sanitized as the gate does, and the gate's and the
\* builder's checks are applied to the sanitized text
CheckDescriptor ==
    /\ area = "title"
    /\ tb_check.state = "pending"
    /\ \E first \in PunctuationOrders(tb_in.short_descriptor) :
       LET sanitized == sanitize_short_descriptor(tb_in.short_descriptor, first)
       IN tb_check' = [state |-> "checked", sanitized |-> sanitized,
                       gate |-> validate_short_descriptor(sanitized),
                       builder |-> _validate_short_descriptor(sanitized) = "ok"]
    /\ UNCHANGED <<pubVars, area, genVars, hybVars, parseVars, xmlVars, tb_in, tb_out>>

NextTitle ==
    \/ Build
    \/ CheckDescriptor

SpecTitle == InitTitle /\ [][NextTitle]_vars

----------------------------------------------------------------------------
(* Calls of the advisor, of the deduper and runs of the hybrid pipeline *)

InitAdvisor ==
    /\ area = "advisor"
    /\ ad_in \in AdvisorInputs
    /\ ad_out = [state |-> "pending", result |-> <<>>, calls |-> 0]
    /\ dd_in = NoDedupInput
    /\ dd_out = NoDedupOutput
    /\ hy_in = NoHybridInput
    /\ hy_out = NoHybridOutput

\* the pipeline calls plan_scenarios or write_steps
CallAdvisor ==
    /\ area = "advisor"
    /\ ad_out.state = "pending"
    /\ LET response == IF ad_in.fn = "plan_scenarios"
                       THEN plan_scenarios(ad_in.configured, ad_in.behaviours)
                       ELSE write_steps(ad_in.configured, ad_in.behaviours)
       IN ad_out' = [state |-> IF response.raised THEN "raised" ELSE "returned",
                     result |-> response.result, calls |-> response.calls]
    /\ UNCHANGED <<pubVars, area, genVars, titleVars, parseVars, xmlVars, ad_in, dd_in, dd_out, hy_in, hy_out>>

InitDedup ==
    /\ area = "dedup"
    /\ dd_in \in (PairInputs \cup ListInputs)
    /\ dd_out = [state |-> "pending", flag |-> FALSE, deduplicated |-> <<>>,
                 deduped_count |-> 0]
    /\ ad_in = NoAdvisorInput
    /\ ad_out = NoAdvisorOutput
    /\ hy_in = NoHybridInput
    /\ hy_out = NoHybridOutput

\* is_duplicate(candidate, existing) is called
CallIsDuplicate ==
    /\ area = "dedup"
    /\ dd_in.kind = "pair"
    /\ dd_out.state = "pending"
    /\ dd_out' = [state |-> "returned",
                  flag |-> HybridDeduper_is_duplicate(dd_in.deduper, dd_in.all_tests[2],
                                                      dd_in.all_tests[1]),
                  deduplicated |-> <<>>, deduped_count |-> 0]
    /\ UNCHANGED <<pubVars, area, genVars, titleVars, parseVars, xmlVars, ad_in, ad_out, dd_in, hy_in, hy_out>>

\* _deduplicate_tests(all_tests) is called
CallDeduplicate ==
    /\ area = "dedup"
    /\ dd_in.kind = "list"
    /\ dd_out.state = "pending"
    /\ LET result == _deduplicate_tests(dd_in.deduper, dd_in.all_tests)
       IN dd_out' = [state |-> "returned", flag |-> FALSE,
                     deduplicated |-> result.deduplicated,
                     deduped_count |-> result.deduped_count]
    /\ UNCHANGED <<pubVars, area, genVars, titleVars, parseVars, xmlVars, ad_in, ad_out, dd_in, hy_in, hy_out>>

InitHybridRun ==
    /\ area = "hybrid"
    /\ hy_in \in HybridInputs
    /\ hy_out = [NoHybridOutput EXCEPT !.state = "pending"]
    /\ ad_in = NoAdvisorInput
    /\ ad_out = NoAdvisorOutput
    /\ dd_in = NoDedupInput
    /\ dd_out = NoDedupOutput

\* a hybrid run goes through stages A to D
RunHybrid ==
    /\ area = "hybrid"
    /\ hy_out.state = "pending"
    /\ hy_out' = run_hybrid_pipeline(hy_in)
    /\ UNCHANGED <<pubVars, area, genVars, titleVars, parseVars, xmlVars, ad_in, ad_out, dd_in, dd_out, hy_in>>

InitHybrid ==
    /\ IdlePub
    /\ IdleGen
    /\ IdleTitle
    /\ IdleParse
    /\ IdleXml
    /\ (InitAdvisor \/ InitDedup \/ InitHybridRun)

NextHybrid ==
    \/ CallAdvisor
    \/ CallIsDuplicate
    \/ CallDeduplicate
    \/ RunHybrid

SpecHybrid == InitHybrid /\ [][NextHybrid]_vars

\* plan_scenarios and write_steps are called synchronously by the pipeline and
\* every request has the timeout of the settings: a call that was started
\* is carried out
SpecHybridFair == SpecHybrid /\ WF_vars(CallAdvisor)

----------------------------------------------------------------------------
(* Calls of the criteria splitter *)

InitSplit ==
    /\ area = "split"
    /\ sp_in \in SplitInputs
    /\ sp_out = [state |-> "pending", result |-> <<>>]
    /\ IdleParseItems
    /\ IdleClassify

InitParseItems ==
    /\ area = "parse"
    /\ pa_in \in ParseInputs
    /\ pa_out = [NoParseOutput EXCEPT !.state = "pending"]
    /\ IdleSplit
    /\ IdleClassify

InitClassify ==
    /\ area = "classify"
    /\ cl_in \in ClassifyInputs
    /\ cl_out = [NoClassifyOutput EXCEPT !.state = "pending"]
    /\ IdleSplit
    /\ IdleParseItems

InitParse ==
    /\ IdlePub
    /\ IdleGen
    /\ IdleTitle
    /\ IdleHyb
    /\ IdleXml
    /\ (InitSplit \/ InitParseItems \/ InitClassify)

\* ACSplitter.split is called with the text
CallSplit ==
    /\ area = "split"
    /\ sp_out.state = "pending"
    /\ sp_out' = [state |-> "returned", result |-> split(sp_in.text)]
    /\ UNCHANGED <<pubVars, area, genVars, titleVars, hybVars, xmlVars, sp_in, pa_in, pa_out, cl_in, cl_out>>

\* _parse_ac_items is called with the text of the criteria field
CallParseItems ==
    /\ area = "parse"
    /\ pa_out.state = "pending"
    /\ pa_out' = [state |-> "returned",
                  normalized |-> NormalizeAll(RawItems(pa_in.text)),
                  result |-> _parse_ac_items(pa_in.text)]
    /\ UNCHANGED <<pubVars, area, genVars, titleVars, hybVars, xmlVars, sp_in, sp_out, pa_in, cl_in, cl_out>>

\* classify is called with the text of a criterion
CallClassify ==
    /\ area = "classify"
    /\ cl_out.state = "pending"
    /\ cl_out' = [state |-> "returned",
                  scores |-> CategoryScores(LowerText(cl_in.text)),
                  result |-> classify(cl_in.text)]
    /\ UNCHANGED <<pubVars, area, genVars, titleVars, hybVars, xmlVars, sp_in, sp_out, pa_in, pa_out, cl_in>>

NextParse ==
    \/ CallSplit
    \/ CallParseItems
    \/ CallClassify

SpecParse == InitParse /\ [][NextParse]_vars

----------------------------------------------------------------------------
(* Encodings of a step list *)

InitXml ==
    /\ IdlePub
    /\ IdleGen
    /\ IdleTitle
    /\ IdleHyb
    /\ IdleParse
    /\ area = "xml"
    /\ xm_in \in SeqsUpTo(XmlSteps, MaxXmlSteps)
    /\ xm_out = [NoXmlOutput EXCEPT !.state = "pending"]

\* generate is called with the step list and the document is read back
Encode ==
    /\ area = "xml"
    /\ xm_out.state = "pending"
    /\ xm_out' = [state |-> "returned",
                  raised |-> generate(xm_in).raised,
                  xml |-> generate(xm_in).xml,
                  document |-> IF generate(xm_in).raised THEN NoDocument
                               ELSE fromstring(generate(xm_in).xml)]
    /\ UNCHANGED <<pubVars, area, genVars, titleVars, hybVars, parseVars, xm_in>>

NextXml == Encode

SpecXml == InitXml /\ [][NextXml]_vars

----------------------------------------------------------------------------
(* Properties of publishing *)

\* C1: a run that repeats, for the unchanged story, a run that completed with
\* an empty error list, and whose lookup returns the stored items, creates no
\* item and updates none: the sink's items stay what they were when the run
\* started, and once the loop is over every candidate was skipped.
C1_RerunChangesNothing ==
    (rerun /\ ~lookupFailed) =>
        /\ items = startItems
        /\ created_ids = <<>>
        /\ updated_ids = <<>>
        /\ (pc \in {"suite", "done"} /\ cands # <<>>) =>
              /\ Len(skipped_ids) = Len(cands)
              /\ \A k \in 1..Len(cands) :
                    /\ cands[k].internal_id \in DOMAIN existing
                    /\ existing[cands[k].internal_id].title = cands[k].title
                    /\ existing[cands[k].internal_id].steps = cands[k].steps_xml

C1_Witness ==
    /\ pc = "done"
    /\ rerun
    /\ ~lookupFailed
    /\ Len(cands) = 2
    /\ Len(skipped_ids) = 2
    /\ Len(items) = 2

\* the internal IDs of the sink's items are pairwise distinct
NoDuplicateInternalIds ==
    \A i, j \in 1..Len(items) :
        KeyOf(items[i].title) = KeyOf(items[j].title) => i = j

C3_AllCandidatesInSuite ==
    (pc = "done" /\ errors = <<>>) =>
        \A k \in 1..Len(handled) : handled[k] \in suite

\* the same for the runs of the hybrid pipeline alone
HybridCandidatesInSuite ==
    (pc = "done" /\ errors = <<>> /\ mode = "hybrid") =>
        \A k \in 1..Len(handled) : handled[k] \in suite

----------------------------------------------------------------------------
(* Properties of the synthesizer, the gate and the close-step operations *)

DigitValue(c) == CHOOSE v \in 0..9 : DigitChar[v + 1] = c

RECURSIVE ToNumber(_)
ToNumber(digits) ==
    IF digits = <<>> THEN 0
    ELSE 10 * ToNumber(SubSeq(digits, 1, Len(digits) - 1)) + DigitValue(digits[Len(digits)])

\* an internal ID as the claim writes it
ExpectedInternalId(story_id, k) ==
    IF k = 0 THEN Digits(story_id) \o <<"-", "A", "C", "1">>
    ELSE Digits(story_id) \o <<"-">> \o
         (IF 5 * k < 10 THEN <<"0", "0">> ELSE IF 5 * k < 100 THEN <<"0">> ELSE <<>>)
         \o Digits(5 * k)

\* the part of an internal ID after the story id and the hyphen
NumericPart(internal_id, story_id) ==
    SubSeq(internal_id, Len(Digits(story_id)) + 2, Len(internal_id))

\* C4: the k-th test case (from 0, the umbrella case included) that the
\* synthesizer returns carries the internal ID of index k: story id, hyphen
\* and AC1 for k = 0, story id, hyphen and 5*k padded with zeros to three
\* digits for k > 0; the IDs are pairwise distinct and the numbers after the
\* first ID are multiples of 5 that strictly increase.
C4_InternalIdsFollowIndex ==
    sy_out.state = "returned" =>
        LET cases == sy_out.cases
            sid == sy_in.story.id
            number(k) == ToNumber(NumericPart(cases[k + 1].internal_id, sid))
        IN /\ \A k \in 0..(Len(cases) - 1) :
                cases[k + 1].internal_id = ExpectedInternalId(sid, k)
           /\ \A i, j \in 1..Len(cases) :
                i # j => cases[i].internal_id # cases[j].internal_id
           /\ \A k \in 1..(Len(cases) - 1) :
                /\ number(k) % 5 = 0
                /\ k > 1 => number(k) > number(k - 1)

\* a returned list with cases of all three per-criterion kinds and IDs whose
\* numbers have one, two and three digits
C4_Witness ==
    /\ sy_out.state = "returned"
    /\ Len(sy_out.cases) > 20
    /\ \E i \in 1..Len(sy_out.cases) : sy_out.cases[i].test_type = "boundary"
    /\ sy_out.cases[Len(sy_out.cases)].test_type = "umbrella"

\* C9: applying a close-step operation twice gives the list that applying it
\* once gives, for the synthesizer's add_close_application_step and for the
\* gate's append_exit_step.
C9_CloseStepAppendIdempotent ==
    \A i \in 2..Len(st_hist) :
        st_hist[i].op = st_hist[i - 1].op => st_hist[i].after = st_hist[i - 1].after

\* the fixed close step of the claim
FixedCloseAction == <<"Close/Exit the QuickDraw application.">>
FixedCloseExpected ==
    <<"Application closes successfully without crash or freeze; no error dialogs are shown during exit.">>

EndsWithFixedCloseStep(tc) ==
    /\ tc.steps # <<>>
    /\ tc.steps[Len(tc.steps)].action = FixedCloseAction
    /\ tc.steps[Len(tc.steps)].expected_result = FixedCloseExpected

\* C10: every test case the rule path generates (per-criterion cases and the
\* umbrella case) and every test case the gate returns has as its last step
\* the fixed close step, with the same action and expected text on both
\* paths.
C10_LastStepIsFixedCloseStep ==
    /\ sy_out.state = "returned" =>
        \A i \in 1..Len(sy_out.cases) : EndsWithFixedCloseStep(sy_out.cases[i])
    /\ gt_out.state = "accepted" => EndsWithFixedCloseStep(gt_out.tc)

----------------------------------------------------------------------------
(* Properties of titles and short descriptors *)

\* word occurs in text with no word character directly before or after it
OccursAsWholeWord(word, text) ==
    \E i \in 1..(Len(text) - Len(word) + 1) :
        /\ SubSeq(text, i, i + Len(word) - 1) = word
        /\ i = 1 \/ ~IsWordChar(text[i - 1])
        /\ i + Len(word) - 1 = Len(text) \/ ~IsWordChar(text[i + Len(word)])

HasForbiddenWord(text) ==
    \E word \in FORBIDDEN_WORDS : OccursAsWholeWord(word, LowerText(text))

HasForbiddenPunctuation(text) ==
    \E punct \in FORBIDDEN_PUNCTUATION : Contains(text, punct)

\* C5: every title TitleBuilder.build returns, shortened ones included, splits
\* on " / " into exactly 5 segments, and its last segment has at most 8 words,
\* no forbidden punctuation and no forbidden word as a whole word.
C5_TitleHasFiveSegments ==
    tb_out.state = "returned" =>
        LET segments == SplitOn(tb_out.title, <<" ", "/", " ">>)
        IN /\ Len(segments) = 5
           /\ Len(SplitWords(segments[Len(segments)])) <= 8
           /\ ~HasForbiddenPunctuation(segments[Len(segments)])
           /\ ~HasForbiddenWord(segments[Len(segments)])

\* C6: every title TitleBuilder.build returns has at most 250 characters,
\* also when no whole word of the descriptor fits after the four-segment
\* prefix.
C6_TitleWithinLengthCap ==
    tb_out.state = "returned" => Len(tb_out.title) <= 250

\* the defects of a short descriptor that the claim lists; a descriptor of
\* whitespace only counts as empty
DescriptorDefective(text) ==
    \/ \A i \in 1..Len(text) : text[i] \in Whitespace
    \/ Len(SplitWords(text)) > 8
    \/ HasForbiddenWord(text)
    \/ HasForbiddenPunctuation(text)

C8_GateAgreesWithBuilder ==
    tb_check.state = "checked" => (tb_check.gate <=> tb_check.builder)

----------------------------------------------------------------------------
(* Properties of the step lists, the links and the order of the cases *)

NumberedFromOne(steps) == \A i \in 1..Len(steps) : steps[i].step_number = i

\* C11: in every test case of the rule path and every test case the gate
\* returns, and in every list the synthesizer's close-step operation returns,
\* the step numbers are 1, 2, ..., n in list order, whatever numbers the
\* steps came with.
C11_StepNumbersContiguous ==
    /\ sy_out.state = "returned" =>
        \A i \in 1..Len(sy_out.cases) : NumberedFromOne(sy_out.cases[i].steps)
    /\ gt_out.state = "accepted" => NumberedFromOne(gt_out.tc.steps)
    /\ \A i \in 1..Len(st_hist) :
        st_hist[i].op = "add_close_application_step" => NumberedFromOne(st_hist[i].after)

\* the close step was appended to steps that were not numbered from 1
C11_Witness ==
    \E i \in 1..Len(st_hist) :
        /\ st_hist[i].op = "add_close_application_step"
        /\ Len(st_hist[i].before) = 2
        /\ ~NumberedFromOne(st_hist[i].before)

\* the link is absent exactly on the umbrella case
LinkAbsentIffUmbrella(tc) ==
    (tc.acceptance_criterion_id = None) <=> (tc.test_type = "umbrella")

\* C12: in every test case that goes to publishing, the cases of the rule
\* path and the cases the gate returns for the advisor alike, the
\* acceptance-criterion link is absent if and only if the case is the
\* umbrella case; a case of the rule path that is not the umbrella case
\* carries the id of one of the criteria.
C12_LinkAbsentOnlyForUmbrella ==
    /\ sy_out.state = "returned" =>
        \A i \in 1..Len(sy_out.cases) :
            /\ LinkAbsentIffUmbrella(sy_out.cases[i])
            /\ sy_out.cases[i].test_type # "umbrella" =>
                \E j \in 1..Len(sy_in.criteria) :
                    sy_out.cases[i].acceptance_criterion_id = Some(sy_in.criteria[j].id)
    /\ gt_out.state = "accepted" => LinkAbsentIffUmbrella(gt_out.tc)

\* the position in the criteria list of the criterion a case is linked to
\* (0 for a case without a link)
CriterionPosition(tc, criteria) ==
    IF \E j \in 1..Len(criteria) : tc.acceptance_criterion_id = Some(criteria[j].id)
    THEN CHOOSE j \in 1..Len(criteria) : tc.acceptance_criterion_id = Some(criteria[j].id)
    ELSE 0

\* C13: for a non-empty list of criteria the list the synthesizer returns
\* holds exactly one umbrella case, as its last element; before it stand the
\* cases of the criteria, at least one for every criterion, grouped by
\* criterion in the order of the criteria.
C13_UmbrellaLastAfterGroupedCases ==
    (sy_out.state = "returned" /\ sy_in.criteria # <<>>) =>
        LET cases == sy_out.cases
            n == Len(cases)
            position(i) == CriterionPosition(cases[i], sy_in.criteria)
        IN /\ n >= 1
           /\ cases[n].test_type = "umbrella"
           /\ \A i \in 1..(n - 1) : cases[i].test_type # "umbrella" /\ position(i) >= 1
           /\ \A i \in 1..(n - 2) : position(i) <= position(i + 1)
           /\ \A j \in 1..Len(sy_in.criteria) : \E i \in 1..(n - 1) : position(i) = j

\* two criteria of different categories, one of them with three cases
C13_Witness ==
    /\ sy_out.state = "returned"
    /\ Len(sy_in.criteria) = 2
    /\ sy_in.criteria[1].category # sy_in.criteria[2].category
    /\ Len(sy_out.cases) >= 5

\* C14: the gate never raises: for every draft and every combination of
\* arguments it returns a test case or the rejection value, an exception
\* raised inside it being turned into a rejection; a rejected draft yields no
\* test case.
C14_GateNeverRaises ==
    /\ gt_out.state # "raised"
    /\ gt_out.state = "rejected" => gt_out.tc = NoTestCase
    /\ gt_out.state = "accepted" => gt_out.tc # NoTestCase

\* a draft with a descriptor the gate accepts and a step entry that is not a
\* mapping, on which the loop over the steps raises
C14_Witness ==
    /\ gt_out.state = "rejected"
    /\ gt_in.draft.short_descriptor = <<"M", "e", "n", "u", " ", "e", "n", "t", "r", "y">>
    /\ gt_in.draft.steps # <<>>
    /\ ~gt_in.draft.steps[1].is_dict

----------------------------------------------------------------------------
(* Properties of the advisor, the deduper and the hybrid pipeline *)

\* the endpoint call of one attempt fails, or its reply cannot be parsed into
\* the response schema
AttemptFails(input, k) ==
    \/ input.behaviours[k].kind \in FailureKinds
    \/ Len(input.behaviours[k].items) >
           (IF input.fn = "plan_scenarios" THEN PlannerMaxSuggestions
            ELSE StepWriterMaxSteps)

\* C15: plan_scenarios and write_steps never propagate an error: whatever the
\* endpoint does, they return; and when they are not configured or every
\* attempt fails, what they return is the empty result.
C15_AdvisorNeverRaises ==
    (area = "advisor" /\ ad_out.state # "pending") =>
        /\ ad_out.state = "returned"
        /\ (~ad_in.configured \/ \A k \in 1..Attempts : AttemptFails(ad_in, k)) =>
               ad_out.result = <<>>
        /\ ~ad_in.configured => ad_out.calls = 0

C15_Witness ==
    /\ area = "advisor"
    /\ ad_in.configured
    /\ ad_in.behaviours[1].kind = "timeout"
    /\ ad_in.behaviours[2].kind = "not-json"
    /\ ad_out.state = "returned"
    /\ ad_out.calls = Attempts
    /\ ad_out.result = <<>>

\* every call of the advisor in the run fails or returns nothing, or the
\* advisor is not configured and so is never reached
AdvisorContributesNothing(hy) ==
    \/ ~llm_enabled(hy)
    \/ \A k \in 1..Attempts :
           \/ hy.planner_behaviours[k].kind \in FailureKinds
           \/ hy.planner_behaviours[k].items = <<>>

\* what publishing takes from a test case: internal ID, title and steps
PublishedSet(tests) ==
    {[internal_id |-> tests[i].internal_id, title |-> tests[i].title,
      steps |-> tests[i].steps] : i \in 1..Len(tests)}

\* C16: a hybrid run to which the advisor contributes nothing hands the
\* publishing stage the same set of test cases (internal IDs, titles, steps)
\* as the rules-only run on the same story.
C16_SameAsRulesOnly ==
    (area = "hybrid" /\ hy_out.state = "done" /\ AdvisorContributesNothing(hy_in)) =>
        PublishedSet(hy_out.final_tests)
            = PublishedSet(generate_and_publish(hy_in).test_cases)

\* the semantic signal: the embedding backend is available, does not raise,
\* and gives a similarity above the threshold
SemanticSignal(deduper, candidate, existing_test) ==
    /\ deduper.embedding_enabled
    /\ ~deduper.library[<<candidate, existing_test>>].embedding_raises
    /\ cosine_similarity(_build_text(candidate), _build_text(existing_test),
                         deduper.library[<<candidate, existing_test>>].similarity)
           > EMBEDDING_THRESHOLD

\* the lexical signal: the ratio backend is available and gives, without
\* raising before, a title ratio or a step-text ratio above the threshold
LexicalSignal(deduper, candidate, existing_test) ==
    /\ deduper.fuzzy_enabled
    /\ deduper.library[<<candidate, existing_test>>].fuzzy_raises # "title"
    /\ \/ fuzz_ratio(_normalize(candidate.title), _normalize(existing_test.title),
                     deduper.library[<<candidate, existing_test>>].title_ratio)
              > FUZZY_THRESHOLD
       \/ /\ deduper.library[<<candidate, existing_test>>].fuzzy_raises = "never"
          /\ fuzz_ratio(_build_steps_text(candidate), _build_steps_text(existing_test),
                        deduper.library[<<candidate, existing_test>>].steps_ratio)
                 > FUZZY_THRESHOLD

\* C17: is_duplicate(candidate, existing) is true exactly when the semantic
\* signal or the lexical signal fires, a backend that is unavailable or raises
\* contributing false; with neither backend available deduplication returns
\* its input list unchanged and a dropped count of 0.
C17_DuplicateIffEitherSignal ==
    /\ (area = "dedup" /\ dd_in.kind = "pair" /\ dd_out.state = "returned") =>
           dd_out.flag = (\/ SemanticSignal(dd_in.deduper, dd_in.all_tests[2],
                                            dd_in.all_tests[1])
                          \/ LexicalSignal(dd_in.deduper, dd_in.all_tests[2],
                                           dd_in.all_tests[1]))
    /\ (/\ area = "dedup"
        /\ dd_in.kind = "list"
        /\ dd_out.state = "returned"
        /\ ~dd_in.deduper.embedding_enabled
        /\ ~dd_in.deduper.fuzzy_enabled) =>
           /\ dd_out.deduplicated = dd_in.all_tests
           /\ dd_out.deduped_count = 0

\* the embedding backend raises and the ratio backend flags the pair
C17_Witness ==
    /\ area = "dedup"
    /\ dd_in.kind = "pair"
    /\ dd_out.state = "returned"
    /\ dd_in.deduper.embedding_enabled
    /\ dd_in.deduper.library[<<dd_in.all_tests[2], dd_in.all_tests[1]>>].embedding_raises
    /\ dd_in.deduper.fuzzy_enabled
    /\ dd_in.all_tests[1] # dd_in.all_tests[2]
    /\ dd_out.flag

----------------------------------------------------------------------------
(* Properties of a run's error handling *)

PublishErrors(errs) == {k \in 1..Len(errs) : errs[k][1] = "publish"}

ErroredCandidates(errs) == {errs[k][2] : k \in PublishErrors(errs)}

\* the item a candidate was published as holds the candidate's title and steps
PublishedAs(item, tc) == item.title = tc.title /\ item.steps = tc.steps_xml

\* C18: a sink failure for one candidate is recorded in the error list and
\* does not stop the loop: every candidate of the run is attempted, each ends
\* in exactly one of created, updated, skipped or errored, and what was
\* published for the other candidates stays published.
C18_SinkFailureDoesNotStopRun ==
    (pc \in {"suite", "done"} /\ cands # <<>>) =>
        /\ Len(handled) = Len(cands)
        /\ \A k \in 1..Len(cands) : (handled[k] = 0) <=> (k \in ErroredCandidates(errors))
        /\ Len(created_ids) + Len(updated_ids) + Len(skipped_ids)
               + Cardinality(PublishErrors(errors)) = Len(cands)
        /\ \A k \in 1..Len(cands) :
               handled[k] # 0 =>
                   /\ handled[k] \in 1..Len(items)
                   /\ PublishedAs(items[handled[k]], cands[k])

\* the sink fails for the first candidate and the second is created
C18_Witness ==
    /\ pc = "done"
    /\ Len(cands) = 2
    /\ 1 \in ErroredCandidates(errors)
    /\ handled[2] # 0
    /\ handled[2] \in SeqRange(created_ids)

\* C19: a run whose story cannot be fetched or has no criteria creates and
\* updates nothing, asks for no suite membership, and ends with a non-empty
\* error list, which for a story without criteria holds the "no acceptance
\* criteria" error.
C19_NoStoryNoCalls ==
    [][(pc = "idle" /\ pc' # "idle" /\ (story.n = 0 \/ cands' = <<>>)) =>
           /\ pc' = "done"
           /\ errors' # <<>>
           /\ (errors'[1][1] # "fatal" => errors' = <<<<"no-acceptance-criteria", 0>>>>)
           /\ items' = items
           /\ suite' = suite
           /\ created_ids' = <<>>
           /\ updated_ids' = <<>>
           /\ handled' = <<>>]_vars

\* after a first run published the story's cases, the story loses its criteria
C19_Witness ==
    /\ pc = "done"
    /\ story.n = 0
    /\ errors = <<<<"no-acceptance-criteria", 0>>>>
    /\ items # <<>>
    /\ items = startItems

----------------------------------------------------------------------------
(* Properties of the criteria splitter *)

\* C20: for a text of k items, each introduced by a numbered marker or each
\* by a bullet marker, on separate lines or on one line, split returns k
\* items in input order, the i-th holding the text of the i-th input item.
C20_MarkedItemsSplitOneByOne ==
    (area = "split" /\ sp_in.kind = "marked" /\ sp_out.state = "returned") =>
        /\ Len(sp_out.result) = sp_in.k
        /\ \A i \in 1..sp_in.k : Contains(sp_out.result[i], ItemText(i, sp_in.period))

----------------------------------------------------------------------------
(* Properties of the criteria parser *)

\* the first position of normalized whose text equals item when both are
\* lowercased, 0 when there is none
FirstOccurrence(normalized, item) ==
    IF \E j \in 1..Len(normalized) : LowerText(normalized[j]) = LowerText(item)
    THEN MinOf({j \in 1..Len(normalized) : LowerText(normalized[j]) = LowerText(item)})
    ELSE 0

\* C21: the criteria the parser returns are non-empty, pairwise different when
\* compared case-insensitively, in the order of their first occurrence in the
\* input (every statement of the input is represented, by its first
\* occurrence), and each ends with '.', '!' or '?'.
C21_ParsedCriteriaDistinctOrderedTerminated ==
    (area = "parse" /\ pa_out.state = "returned") =>
        /\ \A i \in 1..Len(pa_out.result) :
              /\ pa_out.result[i] # <<>>
              /\ pa_out.result[i][Len(pa_out.result[i])] \in SentenceEnd
              /\ FirstOccurrence(pa_out.normalized, pa_out.result[i]) # 0
              /\ pa_out.result[i] =
                     pa_out.normalized[FirstOccurrence(pa_out.normalized, pa_out.result[i])]
        /\ \A i, j \in 1..Len(pa_out.result) :
              i < j =>
                 /\ LowerText(pa_out.result[i]) # LowerText(pa_out.result[j])
                 /\ FirstOccurrence(pa_out.normalized, pa_out.result[i])
                        < FirstOccurrence(pa_out.normalized, pa_out.result[j])
        /\ \A j \in 1..Len(pa_out.normalized) :
              \E i \in 1..Len(pa_out.result) :
                  LowerText(pa_out.result[i]) = LowerText(pa_out.normalized[j])

\* a list of three statements, two of which differ in case only, was parsed
\* into two criteria
C21_Witness ==
    /\ area = "parse"
    /\ pa_out.state = "returned"
    /\ Len(pa_in.statements) = 3
    /\ Len(pa_out.normalized) = 3
    /\ Len(pa_out.result) = 2
    /\ \E i, j \in 1..3 :
          /\ i < j
          /\ pa_out.normalized[i] # pa_out.normalized[j]
          /\ LowerText(pa_out.normalized[i]) = LowerText(pa_out.normalized[j])

----------------------------------------------------------------------------
(* Properties of the steps document *)

\* int(text) of an attribute value
SignedNumber(text) ==
    IF text # <<>> /\ Head(text) = "-" THEN 0 - ToNumber(Tail(text)) ELSE ToNumber(text)

\* the record read back is the step: its id is the step's number, its two
\* texts are the step's action and expected text
SameStep(record, step) ==
    /\ record.id # <<>>
    /\ SignedNumber(record.id) = step.step_number
    /\ record.action = Some(step.action)
    /\ record.expected = Some(step.expected_result)

\* C22: encoding a non-empty step list and reading the document back yields
\* one record per step, in order, with the step's number, action and expected
\* text, and 'last' equal to the number of steps; encoding an empty list
\* raises.
C22_StepsRoundTrip ==
    (area = "xml" /\ xm_out.state = "returned") =>
        IF xm_in = <<>> THEN xm_out.raised
        ELSE /\ ~xm_out.raised
             /\ xm_out.document.ok
             /\ SignedNumber(xm_out.document.last) = Len(xm_in)
             /\ Len(xm_out.document.steps) = Len(xm_in)
             /\ \A i \in 1..Len(xm_in) : SameStep(xm_out.document.steps[i], xm_in[i])

----------------------------------------------------------------------------
(* Properties of the gate's steps *)

\* C23: the last step of every test case the gate returns is the mandatory
\* close step, with its fixed action and its fixed expected text, also when
\* the draft already holds a step with the close action.
C23_GateEndsWithCloseStep ==
    (area = "gate" /\ gt_out.state = "accepted") =>
        /\ gt_out.tc.steps # <<>>
        /\ gt_out.tc.steps[Len(gt_out.tc.steps)].action = EXIT_ACTION
        /\ gt_out.tc.steps[Len(gt_out.tc.steps)].expected_result = EXIT_EXPECTED

\* the text begins with a header marker or contains a fenced code block
HasHeaderOrFence(text) == StartsWith(text, <<"#">>) \/ Contains(text, Fence)

\* C24: a draft in which the action or the expected text of some step begins
\* with a header marker or contains a fenced code block is rejected: it never
\* becomes a test case.
C24_MarkdownStepsRejected ==
    (area = "gate" /\ gt_out.state = "accepted") =>
        \A i \in 1..Len(gt_in.draft.steps) :
            /\ ~HasHeaderOrFence(gt_in.draft.steps[i].action)
            /\ ~HasHeaderOrFence(gt_in.draft.steps[i].expected)

----------------------------------------------------------------------------
(* Properties of the summary of a hybrid run and of the deduplication *)

\* C25: in the summary of a hybrid run that reached stage D the
\* rejected-as-duplicate count is the number of advisor cases that
\* deduplication dropped, the rejected-by-validation count is the number of
\* advisor proposals that validation dropped (none when the advisor made no
\* proposal), neither count is negative, and the final set holds the baseline
\* cases and the accepted advisor cases.
C25_SummaryCountsConsistent ==
    (area = "hybrid" /\ hy_out.state = "done" /\ hy_out.errors = <<>>) =>
        /\ hy_out.llm_rejected_duplicate = hy_out.llm_suggested - hy_out.llm_accepted
        /\ ~llm_enabled(hy_in) => hy_out.llm_rejected_validation = 0
        /\ hy_out.llm_rejected_duplicate >= 0
        /\ hy_out.llm_rejected_validation >= 0
        /\ Len(hy_out.final_tests) = hy_out.baseline_count + hy_out.llm_accepted

\* for every position of all_tests, whether the candidate there is accepted:
\* it is, unless it is flagged as a duplicate of an accepted candidate before
\* it
AcceptedAt(deduper, all_tests) ==
    CHOOSE f \in [1..Len(all_tests) -> BOOLEAN] :
        \A i \in 1..Len(all_tests) :
            f[i] <=> ~\E j \in 1..(i - 1) :
                         /\ f[j]
                         /\ HybridDeduper_is_duplicate(deduper, all_tests[i], all_tests[j])

\* the candidates at the accepted positions, in list order
AcceptedTests(all_tests, accepted) ==
    LET positions == SelectSeq([i \in 1..Len(all_tests) |-> i], LAMBDA i : accepted[i])
    IN [k \in 1..Len(positions) |-> all_tests[positions[k]]]

IsPrefix(s, t) == Len(s) <= Len(t) /\ SubSeq(t, 1, Len(s)) = s

\* C26: deduplication goes through the candidates in list order, baseline
\* cases before advisor cases; the result holds exactly the candidates not
\* flagged as a duplicate of a candidate accepted before them, in list order,
\* the first candidate among them; what is accepted after k candidates is
\* still there, in place, after k + 1; accepted plus dropped is the number of
\* candidates.
C26_DedupKeepsAcceptedInOrder ==
    /\ (area = "dedup" /\ dd_in.kind = "list" /\ dd_out.state = "returned") =>
        /\ dd_out.deduplicated
               = AcceptedTests(dd_in.all_tests, AcceptedAt(dd_in.deduper, dd_in.all_tests))
        /\ dd_in.all_tests # <<>> => /\ dd_out.deduplicated # <<>>
                                     /\ dd_out.deduplicated[1] = dd_in.all_tests[1]
        /\ Len(dd_out.deduplicated) + dd_out.deduped_count = Len(dd_in.all_tests)
        /\ \A k \in 1..Len(dd_in.all_tests) :
              /\ IsPrefix(_deduplicate_tests(dd_in.deduper,
                                             SubSeq(dd_in.all_tests, 1, k - 1)).deduplicated,
                          _deduplicate_tests(dd_in.deduper,
                                             SubSeq(dd_in.all_tests, 1, k)).deduplicated)
              /\ IsPrefix(_deduplicate_tests(dd_in.deduper,
                                             SubSeq(dd_in.all_tests, 1, k)).deduplicated,
                          dd_out.deduplicated)
    /\ (area = "hybrid" /\ hy_out.state = "done") =>
        \A i, j \in 1..Len(hy_out.final_tests) :
            (i < j /\ IsLlm(hy_out.final_tests[i])) => IsLlm(hy_out.final_tests[j])

\* of three different candidates the second was dropped as a duplicate of the
\* first, and the third, no duplicate of the first, was accepted
C26_Witness ==
    /\ area = "dedup"
    /\ dd_in.kind = "list"
    /\ dd_out.state = "returned"
    /\ Len(dd_in.all_tests) = 3
    /\ dd_in.all_tests[1] # dd_in.all_tests[2]
    /\ dd_in.all_tests[2] # dd_in.all_tests[3]
    /\ dd_out.deduplicated = <<dd_in.all_tests[1], dd_in.all_tests[3]>>
    /\ dd_out.deduped_count = 1
    /\ HybridDeduper_is_duplicate(dd_in.deduper, dd_in.all_tests[2], dd_in.all_tests[1])

----------------------------------------------------------------------------
(* Properties of the cases of a criterion *)

\* the test types of the cases linked to the criterion, in list order
TypesOfCriterion(cases, id) ==
    LET LinkedTo(tc) == tc.acceptance_criterion_id = Some(id)
        linked == SelectSeq(cases, LinkedTo)
    IN [k \in 1..Len(linked) |-> linked[k].test_type]

\* the number of cases a criterion of the category has once the negative
\* case was decided on
CountAfterNegative(cap, category) ==
    IF category # "RESTRICTIONS_SCOPE" /\ 1 < cap THEN 2 ELSE 1

\* C27: a criterion gets a happy-path case, then a negative case iff its
\* category is not restrictions/scope and fewer than max_tests_per_ac cases
\* exist so far, then a boundary case iff its category is limit/retention or
\* ordering and fewer than max_tests_per_ac cases exist so far: at least 1 and
\* at most max_tests_per_ac cases.
C27_CasesPerCriterion ==
    (area = "synth" /\ sy_out.state = "returned") =>
        \A j \in 1..Len(sy_in.criteria) :
            LET types == TypesOfCriterion(sy_out.cases, sy_in.criteria[j].id)
                category == sy_in.criteria[j].category
                cap == sy_in.max_tests_per_ac
            IN /\ Len(types) >= 1
               /\ Len(types) <= cap
               /\ types[1] = "happy_path"
               /\ (\E k \in 1..Len(types) : types[k] = "negative")
                      <=> (category # "RESTRICTIONS_SCOPE" /\ 1 < cap)
               /\ (\E k \in 1..Len(types) : types[k] = "boundary")
                      <=> (/\ category \in {"LIMIT_RETENTION", "ORDERING"}
                           /\ CountAfterNegative(cap, category) < cap)
               /\ \A k \in 2..Len(types) :
                      /\ types[k] \in {"negative", "boundary"}
                      /\ types[k] = "negative" => k = 2
                      /\ types[k] = "boundary" => k = Len(types)

\* a criterion of the ordering category with all three cases, and one of the
\* restrictions/scope category with its happy-path case only
C27_Witness ==
    /\ area = "synth"
    /\ sy_out.state = "returned"
    /\ sy_in.max_tests_per_ac = 3
    /\ Len(sy_in.criteria) = 2
    /\ sy_in.criteria[1].category = "ORDERING"
    /\ sy_in.criteria[2].category = "RESTRICTIONS_SCOPE"
    /\ TypesOfCriterion(sy_out.cases, sy_in.criteria[1].id)
           = <<"happy_path", "negative", "boundary">>
    /\ TypesOfCriterion(sy_out.cases, sy_in.criteria[2].id) = <<"happy_path">>

\* C30: with the cap at 2, the value both pipelines configure, no case has
\* the boundary type: the categories that can get a boundary case get a
\* negative case first, which reaches the cap.
C30_NoBoundaryCaseAtPipelineCap ==
    (area = "synth" /\ sy_out.state = "returned"
        /\ sy_in.max_tests_per_ac = PipelineMaxTestsPerAc) =>
        /\ \A i \in 1..Len(sy_out.cases) : sy_out.cases[i].test_type # "boundary"
        /\ \A j \in 1..Len(sy_in.criteria) :
              sy_in.criteria[j].category \in {"LIMIT_RETENTION", "ORDERING"} =>
                  TypesOfCriterion(sy_out.cases, sy_in.criteria[j].id)
                      = <<"happy_path", "negative">>

\* criteria of the two categories that can get a boundary case, at the cap 2
C30_Witness ==
    /\ area = "synth"
    /\ sy_out.state = "returned"
    /\ sy_in.max_tests_per_ac = PipelineMaxTestsPerAc
    /\ Len(sy_in.criteria) = 2
    /\ sy_in.criteria[1].category = "LIMIT_RETENTION"
    /\ sy_in.criteria[2].category = "ORDERING"
    /\ Len(sy_out.cases) = 5

----------------------------------------------------------------------------
(* Properties of the criteria classifier *)

\* the categories in the order of their declaration in ACCategory
DeclaredOrder ==
    <<"AVAILABILITY_ENTRY_POINTS", "LOGGING_TRACKING", "ORDERING", "LIMIT_RETENTION",
      "RESTRICTIONS_SCOPE", "DYNAMIC_REFRESH", "RESET_CONDITIONS", "SCROLLING",
      "ACCESSIBILITY", "OTHER_GENERAL">>

DeclaredAt(category) == CHOOSE i \in 1..Len(DeclaredOrder) : DeclaredOrder[i] = category

\* the score of a category for the text classified: other/general has no
\* keywords and scores zero
ScoreOf(category) ==
    LET at == {i \in 1..Len(KEYWORD_PATTERNS) : KEYWORD_PATTERNS[i].category = category}
    IN IF at = {} THEN 0 ELSE cl_out.scores[CHOOSE i \in at : TRUE]

\* C28: classify returns one category for every text; when the largest score
\* over the categories is greater than zero the category returned attains it
\* and every category declared before it scores less, and when every score is
\* zero the category returned is other/general.
C28_ClassifyEarliestMaximalCategory ==
    (area = "classify" /\ cl_out.state = "returned") =>
        /\ cl_out.result \in ACCategory
        /\ IF \E c \in ACCategory : ScoreOf(c) > 0
           THEN /\ \A c \in ACCategory : ScoreOf(c) <= ScoreOf(cl_out.result)
                /\ \A c \in ACCategory :
                      DeclaredAt(c) < DeclaredAt(cl_out.result)
                          => ScoreOf(c) < ScoreOf(cl_out.result)
           ELSE cl_out.result = "OTHER_GENERAL"

\* a text of three words is classified, one of them only contains a keyword
\* and counts for no category, two categories attain the largest score, and
\* the one declared first of the two is returned although it is not the first
\* category declared
C28_Witness ==
    /\ area = "classify"
    /\ cl_out.state = "returned"
    /\ Len(cl_in.phrases) = 3
    /\ \E i \in 1..3 : cl_in.phrases[i] = <<"s", "c", "r", "o", "l", "l", "b", "a", "r", "s">>
    /\ cl_out.result = "ORDERING"
    /\ ScoreOf("ORDERING") > 0
    /\ ScoreOf("LIMIT_RETENTION") = ScoreOf("ORDERING")
    /\ ScoreOf("SCROLLING") = 0

----------------------------------------------------------------------------
(* Properties of the retry loop of the advisor *)

\* PlannerResponse.suggestions has at most 2 items, StepWriterResponse.steps
\* at most 10
MaxResultLength(fn) ==
    IF fn = "plan_scenarios" THEN PlannerMaxSuggestions ELSE StepWriterMaxSteps

\* what holds of an invocation that ended
AdvisorCallsBounded ==
    (area = "advisor" /\ ad_out.state # "pending") =>
        /\ ad_out.state = "returned"
        /\ ad_out.calls <= Attempts
        /\ ad_out.calls > 1 => AttemptFails(ad_in, 1)
        /\ (ad_in.configured /\ ~AttemptFails(ad_in, 1)) =>
               /\ ad_out.calls = 1
               /\ ad_out.result = ad_in.behaviours[1].items
        /\ Len(ad_out.result) <= MaxResultLength(ad_in.fn)

\* C29: an invocation of plan_scenarios or of write_steps calls the endpoint
\* at most twice, the second call is made only after the first has failed, a
\* first call that succeeds is the only call and its reply is the result, and
\* every invocation ends, with at most 2 suggestions or at most 10 steps.
C29_AdvisorCallsBoundedAndEnds ==
    /\ []AdvisorCallsBounded
    /\ (area = "advisor" /\ ad_out.state = "pending") ~> (ad_out.state = "returned")

\* the first call of a configured planner times out, the retry is answered
\* with two suggestions, and they are the result after two calls
C29_Witness ==
    /\ area = "advisor"
    /\ ad_in.fn = "plan_scenarios"
    /\ ad_in.configured
    /\ ad_in.behaviours[1].kind = "timeout"
    /\ ad_in.behaviours[2].kind = "reply"
    /\ ad_out.state = "returned"
    /\ ad_out.calls = 2
    /\ Len(ad_out.result) = PlannerMaxSuggestions

====
